---- MODULE Spec2Model ----
(***************************************************************************)
(* Instrument drivers of pymeasure (CNT91 frequency counter, HMP4040 power *)
(* supply, RTE / T3DS01204 oscilloscopes, AFG3100 / AFG3152C generators)   *)
(* as state machines.  Every driver talks to its instrument over one       *)
(* blocking request/response connection; the model records the command     *)
(* strings that reach the connection and the replies the instrument gives. *)
(*                                                                         *)
(* There is one specification per driver family:                           *)
(*   SpecBTS   CNT91.buffer_time_series and the methods it calls (cnt91.py)*)
(*   SpecBuf   CNT91.batch_size and CNT91.read_buffer (cnt91.py)           *)
(*   SpecRead  CNT91.read_buffer on a counter that keeps its batch size    *)
(*   SpecAttr  the attribute setters and checked methods of HMP4040 and    *)
(*             RTE (hmp.py, rte.py)                                        *)
(*   SpecSub   the channel / mode sub-objects (rte.py, t3ds01204.py,       *)
(*             afg3100.py, afg3152c.py) and RTE.Channel.get_waveform       *)
(*   SpecSeq   HMP4040.sequence and process_sequence (hmp.py)              *)
(*   SpecAct   HMP4040.activate_channel / deactivate_channel (hmp.py)      *)
(*   SpecErr   the transport failing a command of buffer_time_series,      *)
(*             read_buffer or activate_channel (cnt91.py, hmp.py)          *)
(*   SpecAFG   the generators of the AFG3100 series (afg3100.py)           *)
(*   SpecTrig  T3DS01204.select_trigger (t3ds01204.py)                     *)
(*   SpecScope the T3DS01204 object and its commands (t3ds01204.py)        *)
(*   SpecHarness  the hooks of tests/conftest.py                           *)
(***************************************************************************)
EXTENDS Integers, Sequences, FiniteSets, TLC

VARIABLES
    \* ---- CNT91 (cnt91.py) ----
    batch,      \* batch[i]: the attribute _batch_size of instance i, or NoAttr
    devSmax,    \* devSmax[i]: what the counter of instance i answers to FORM:SMAX?
    devBuf,     \* devBuf[i]: the values still held in the counter's buffer
    smax,       \* smax[i]: the FORM:SMAX? queries instance i has sent: how many,
                \* whether the transport failed one, and the first answer
    lastRead,   \* the read of the batch_size property made by the latest step
    call,       \* the latest call of a CNT91 method, its position and its commands
    gen,        \* the generator made by the latest read_buffer call
    \* ---- HMP4040 / RTE attribute setters and checked methods ----
    hmpSel,     \* the channel selected on the power supply
    attrOp,     \* the latest HMP4040 / RTE operation and what it wrote
    \* ---- channel and mode sub-objects ----
    objs,       \* the sub-objects constructed so far
    subOp,      \* the latest operation of a sub-object and what it wrote
    \* ---- HMP4040.activate_channel / deactivate_channel ----
    hmpActive,  \* hmpActive[c]: whether output channel c of the supply is active
    act,        \* the latest activate_channel / deactivate_channel call
    \* ---- the test harness, the T3DS01204 and the AFG3100 series ----
    harness,    \* the pytest session: its options and its collected items
    t3ds,       \* the T3DS01204 object: what it sent and its latest operation
    afg         \* the latest operation on a generator of the AFG3100 series

cntVars == <<batch, devSmax, devBuf, smax, lastRead, call, gen>>
actVars == <<hmpActive, act>>
restVars == <<harness, t3ds, afg>>
nonCnt == <<hmpSel, attrOp, objs, subOp, actVars, restVars>>
attrVars == <<hmpSel, attrOp>>
subVars == <<objs, subOp>>
NoOp == [op |-> "none"]
vars == <<batch, devSmax, devBuf, smax, lastRead, call, gen, hmpSel, attrOp, objs, subOp,
          hmpActive, act, harness, t3ds, afg>>

----------------------------------------------------------------------------
(* Bounds of the model.                                                    *)

MaxBuf == 3          \* values in a counter's buffer at the start
MaxBatch == 2        \* largest answer to FORM:SMAX?
MaxQueries == 2      \* FORM:SMAX? queries counted per instance
MaxPoll == 2         \* *OPC? polls recorded per call
MaxObjs == 2         \* sub-objects alive at a time
MaxSeqLen == 6       \* values in a list assigned to HMP4040.sequence

----------------------------------------------------------------------------
(* Python helpers.                                                         *)

None == "None"
NoAttr == 0             \* hasattr(self, "_batch_size") is False

Min(a, b) == IF a <= b THEN a ELSE b

\* Arguments that can be of more than one Python type: an int is
\* [int |-> n], a str [str |-> s], None [none |-> TRUE].
PyInt(n) == [int |-> n]
PyStrOf(s) == [str |-> s]
PyNone == [none |-> TRUE]
IsInt(x) == "int" \in DOMAIN x
IsStr(x) == "str" \in DOMAIN x
\* the truth value of an int, a str or None
IsTrue(x) == IF IsInt(x) THEN x.int # 0 ELSE IF IsStr(x) THEN x.str # "" ELSE FALSE
\* the text an f-string makes of an int or a str
FStr(x) == IF IsInt(x) THEN ToString(x.int) ELSE IF IsStr(x) THEN x.str ELSE "None"

\* the lists of at most n elements of S
RECURSIVE SeqsUpTo(_, _)
SeqsUpTo(S, n) ==
    IF n = 0 THEN {<<>>}
    ELSE LET shorter == SeqsUpTo(S, n - 1)
         IN  shorter \cup {Append(q, x) : q \in shorter, x \in S}

\* str.join
RECURSIVE Join(_, _)
Join(sep, parts) ==
    IF parts = <<>> THEN ""
    ELSE IF Len(parts) = 1 THEN parts[1]
    ELSE parts[1] \o sep \o Join(sep, Tail(parts))

\* str.rstrip("\n") on the replies the counter gives
Rstrip(reply) ==
    CASE reply = "1\n" -> "1"
      [] reply = "0\n" -> "0"
      [] reply = "\n"  -> ""
      [] OTHER         -> reply

----------------------------------------------------------------------------
(* The CNT91 frequency counter: cnt91.py.                                  *)

CntInsts == {"c1", "c2"}        \* two CNT91 objects, each with its own counter
GenInsts == {"c1"}              \* the object whose buffer is read out

\* CNT91.CHANNELS
CHANNELS == [c \in {"A", "B", "C", "REAR", "INTREF"} |->
    CASE c = "A" -> 1 [] c = "B" -> 2 [] c = "C" -> 3 [] c = "REAR" -> 4 [] OTHER -> 6]

\* CNT91.TRIGGER_SOURCES
TRIGGER_SOURCES == [t \in {"A", "B", "REAR"} |->
    CASE t = "A" -> "EXT1" [] t = "B" -> "EXT2" [] OTHER -> "EXT4"]

MAX_N_SAMPLES == 100000
MAX_SAMPLE_RATE == 100000

\* The arguments the calls are tried with.
ChannelArgs == {"A", "INTREF", "X"}
NSamplesArgs == {1, MAX_N_SAMPLES, MAX_N_SAMPLES + 1}
SampleRateArgs == {0, 1, MAX_SAMPLE_RATE, MAX_SAMPLE_RATE + 1}
TriggerArgs == {None, "", "A", "REAR", "C"}

\* Python truth value of the trigger_source argument (None and "" are false)
Truthy(x) == x # None /\ x # ""

\* str(1 / sample_rate), for the sample rates of SampleRateArgs
MeasurementTime(sample_rate) ==
    CASE sample_rate = MAX_SAMPLE_RATE -> "1e-05"
      [] OTHER -> "1.0"

\* What a method does before it returns or raises: the commands it writes, and
\* the exception it raises ("" for none).
Done(cmds) == [cmds |-> cmds, error |-> ""]
Raise(e) == [cmds |-> <<>>, error |-> e]

\* CNT91.configure_array_measurement
ConfigureArrayMeasurement(n_samples, channel) ==
    IF ~(n_samples <= MAX_N_SAMPLES) THEN Raise("AssertionError")
    ELSE IF channel \notin DOMAIN CHANNELS THEN Raise("KeyError")
    ELSE Done(<<":CONF:ARR:FREQ " \o ToString(n_samples) \o ",(@"
                \o ToString(CHANNELS[channel]) \o ")">>)

\* CNT91.arm_trigger_source
ArmTriggerSource(trigger_source) ==
    IF trigger_source \notin DOMAIN TRIGGER_SOURCES THEN Raise("AssertionError")
    ELSE Done(<<"ARM:SOUR " \o TRIGGER_SOURCES[trigger_source] \o "; ARM:SLOP POS">>)

\* CNT91.set_measurement_time
SetMeasurementTime(measurement_time) == Done(<<":ACQ:APER " \o measurement_time>>)

\* Instrument.clear
Clear == Done(<<"*CLS">>)

\* self.format("ASCII"): self.format reads the property format, which sends the
\* query FORM? and gives the parsed reply; the reply, a str, is then called
\* with "ASCII", which raises TypeError.
FormatQuery == "FORM?"
FormatCall == "TypeError"

NoCall == [op |-> "none", sample_rate |-> 0, error |-> "", n_samples |-> 0,
           channel |-> None, trigger_source |-> None, inst |-> "c1",
           pc |-> "none", sent |-> <<>>, polls |-> <<>>]

NoGen == [error |-> "", inst |-> "c1", pc |-> "none", data |-> <<>>,
          idx |-> 0, yielded |-> <<>>, received |-> <<>>, lens |-> <<>>,
          fetches |-> 0]

NoRead == [error |-> "", inst |-> "c1", value |-> 0, asked |-> FALSE]

CallEnded == call.pc \in {"none", "returned", "raised"}
GenRunning == gen.pc \in {"fetch", "check"}
GenEnded == gen.pc \in {"none", "done", "raised"}

\* A finished call: what it sent and how it ended.
Finish(c, r) == [c EXCEPT !.sent = c.sent \o r.cmds,
                          !.error = r.error,
                          !.pc = IF r.error = "" THEN "returned" ELSE "raised"]

\* A step the transport fails, if the driver sent the command a second time
\* before it gave up
AdvanceRetrying(c, r, next, ok) ==
    IF r.error # "" THEN Finish(c, r)
    ELSE IF ~ok THEN [c EXCEPT !.sent = c.sent \o r.cmds \o r.cmds,
                               !.error = "TransportError", !.pc = "raised"]
    ELSE [c EXCEPT !.sent = c.sent \o r.cmds, !.pc = next]

\* A step of a call that writes r.cmds and goes on at next, unless r raises or
\* the transport raises while writing (ok = FALSE).
Advance(c, r, next, ok) ==
    IF r.error # "" THEN Finish(c, r)
    ELSE IF ~ok THEN [c EXCEPT !.sent = c.sent \o r.cmds, !.error = "TransportError",
                               !.pc = "raised"]
    ELSE [c EXCEPT !.sent = c.sent \o r.cmds, !.pc = next]

\* CNT91.buffer_time_series, the call itself: lines 136-138.
BTS_Call(i, channel, n_samples, sample_rate, trigger_source) ==
    /\ CallEnded /\ GenEnded
    /\ LET c == [NoCall EXCEPT !.op = "buffer_time_series", !.inst = i,
                               !.channel = channel, !.n_samples = n_samples,
                               !.sample_rate = sample_rate,
                               !.trigger_source = trigger_source]
       IN  call' = IF ~(sample_rate <= MAX_SAMPLE_RATE)
                     THEN Finish(c, Raise("AssertionError"))
                   ELSE IF sample_rate = 0
                     THEN Finish(c, Raise("ZeroDivisionError"))
                   ELSE [c EXCEPT !.pc = "clear"]
    /\ gen' = NoGen
    /\ UNCHANGED nonCnt
    /\ UNCHANGED <<batch, devSmax, devBuf, smax, lastRead>>

\* CNT91.operation_complete on the reply of the counter
OperationComplete(reply) == Rstrip(reply) = "1"

\* CNT91.buffer_time_series, one statement of lines 143-156 at a time.  ok says
\* whether the transport carries the statement's command; reply is the answer
\* of the counter to *OPC?.
BTS_Step(ok, reply) ==
    /\ call.op = "buffer_time_series" /\ ~CallEnded
    /\ call' =
        CASE call.pc = "clear" -> Advance(call, Clear, "format", ok)
          [] call.pc = "format" ->
                IF ~ok THEN Advance(call, Done(<<FormatQuery>>), "format", ok)
                ELSE IF FormatCall # ""
                  THEN [call EXCEPT !.sent = call.sent \o <<FormatQuery>>,
                                    !.error = FormatCall, !.pc = "raised"]
                ELSE Advance(call, Done(<<FormatQuery>>), "configure", ok)
          [] call.pc = "configure" ->
                Advance(call, ConfigureArrayMeasurement(call.n_samples, call.channel),
                        "cont", ok)
          [] call.pc = "cont" ->
                Advance(call, Done(<<Join(";", <<":INIT:CONT OFF">>)>>), "aper", ok)
          [] call.pc = "aper" ->
                Advance(call, SetMeasurementTime(MeasurementTime(call.sample_rate)),
                        IF Truthy(call.trigger_source) THEN "arm" ELSE "init", ok)
          [] call.pc = "arm" ->
                Advance(call, ArmTriggerSource(call.trigger_source), "init", ok)
          [] call.pc = "init" -> Advance(call, Done(<<":INIT">>), "poll", ok)
          [] OTHER ->  \* "poll": while not self.operation_complete: sleep(0.01)
                IF ~ok THEN Advance(call, Done(<<"*OPC?">>), "poll", ok)
                ELSE [call EXCEPT !.sent = IF Len(call.polls) < MaxPoll
                                            THEN call.sent \o <<"*OPC?">>
                                            ELSE call.sent,
                                  !.polls = IF Len(call.polls) < MaxPoll
                                            THEN call.polls \o <<Rstrip(reply)>>
                                            ELSE call.polls,
                                  !.pc = IF OperationComplete(reply)
                                         THEN "returned" ELSE "poll"]
    /\ UNCHANGED nonCnt
    /\ UNCHANGED <<batch, devSmax, devBuf, smax, lastRead, gen>>

\* A method called on its own: the whole call is one step.
DirectCall(i, op, r, ok) ==
    /\ CallEnded /\ GenEnded
    /\ call' = Advance([NoCall EXCEPT !.op = op, !.inst = i], r, "returned", ok)
    /\ gen' = NoGen
    /\ UNCHANGED nonCnt
    /\ UNCHANGED <<batch, devSmax, devBuf, smax, lastRead>>

\* configure_array_measurement and arm_trigger_source called on their own
ConfigureCall(i, n_samples, channel, ok) ==
    DirectCall(i, "configure_array_measurement",
               ConfigureArrayMeasurement(n_samples, channel), ok)

ArmCall(i, trigger_source, ok) ==
    DirectCall(i, "arm_trigger_source", ArmTriggerSource(trigger_source), ok)

\* int(self.ask("FORM:SMAX?")): the counter answers with the decimal digits of
\* its setting; int() reads them back.
SmaxReply(i) == ToString(devSmax[i]) \o "\n"
IntOf(text) == CHOOSE v \in 0..(MaxBatch + 1) : ToString(v) = text \/ ToString(v) \o "\n" = text

\* The property CNT91.batch_size read on instance i: the value it gives, whether
\* it asks the counter, and the attribute afterwards.
BatchSizeNotCached(i) == TRUE
BatchSizeAsks(i) == batch[i] = NoAttr
BatchSizeValue(i) == IF BatchSizeAsks(i) THEN IntOf(Rstrip(SmaxReply(i))) ELSE batch[i]

\* The effect of reading batch_size on the instance state (ok: the transport
\* carries the query, if one is sent).
BatchSizeEffect(i, ok) ==
    /\ batch' = IF BatchSizeAsks(i) /\ ok
                THEN [batch EXCEPT ![i] = BatchSizeValue(i)] ELSE batch
    /\ smax' = IF ~BatchSizeAsks(i) THEN smax
               ELSE [smax EXCEPT ![i] =
                        [sent |-> Min(smax[i].sent + 1, MaxQueries),
                         failed |-> smax[i].failed \/ ~ok,
                         first |-> IF ok /\ smax[i].first = 0
                                   THEN BatchSizeValue(i) ELSE smax[i].first]]

\* The caller reads cnt.batch_size (between calls, or between two values of a
\* generator).
ReadBatchSize(i, ok) ==
    /\ CallEnded /\ ~GenRunning
    /\ BatchSizeEffect(i, ok)
    /\ lastRead' = [error |-> IF BatchSizeAsks(i) /\ ~ok THEN "TransportError" ELSE "",
                    inst |-> i,
                    value |-> IF BatchSizeAsks(i) /\ ~ok THEN 0 ELSE BatchSizeValue(i),
                    asked |-> BatchSizeAsks(i)]
    /\ UNCHANGED nonCnt
    /\ UNCHANGED <<devSmax, devBuf, call, gen>>

\* The reply of the counter to :FETC:ARR? MAX: at most devSmax values from the
\* front of its buffer, as comma-separated text; Fields is the reply split at
\* the commas.  An empty reply splits into one empty field.
FetchCount(i) == Min(devSmax[i], Len(devBuf[i]))
Fields(values) ==
    IF values = <<>> THEN <<"">> ELSE [k \in 1..Len(values) |-> ToString(values[k])]

\* float(x)
IsFloat(x) == x # ""
Float(x) == CHOOSE v \in 0..(MaxBuf + 1) : ToString(v) = x

\* CNT91.read_buffer(): a call makes the generator; nothing runs yet.
ReadBufferCall(i) ==
    /\ CallEnded /\ ~GenRunning
    /\ gen' = [NoGen EXCEPT !.inst = i, !.pc = "created"]
    /\ call' = NoCall
    /\ UNCHANGED nonCnt
    /\ lastRead' = NoRead
    /\ UNCHANGED <<batch, devSmax, devBuf, smax>>

\* next() on the generator: the first one enters the loop, a later one gives
\* the next value of the batch or, after the last, goes on to line 87.
Gen_Next ==
    /\ gen.pc \in {"created", "yield"}
    /\ gen' = IF gen.pc = "created" THEN [gen EXCEPT !.pc = "fetch"]
              ELSE IF gen.idx < Len(gen.data)
                THEN [gen EXCEPT !.idx = gen.idx + 1,
                                 !.yielded = gen.yielded \o <<gen.data[gen.idx + 1]>>]
              ELSE [gen EXCEPT !.pc = "check"]
    /\ UNCHANGED nonCnt
    /\ lastRead' = NoRead
    /\ UNCHANGED <<batch, devSmax, devBuf, smax, call>>

\* Line 79 and the first yield of the batch.
Gen_Fetch(ok) ==
    /\ gen.pc = "fetch"
    /\ LET i == gen.inst
           k == FetchCount(i)
           fields == Fields(SubSeq(devBuf[i], 1, k))
           g == [gen EXCEPT !.fetches = gen.fetches + 1]
       IN  IF ~ok
             THEN /\ gen' = [g EXCEPT !.pc = "raised", !.error = "TransportError"]
                  /\ UNCHANGED devBuf
           ELSE /\ devBuf' = [devBuf EXCEPT ![i] = SubSeq(devBuf[i], k + 1, Len(devBuf[i]))]
                /\ IF \E f \in 1..Len(fields) : ~IsFloat(fields[f])
                     THEN gen' = [g EXCEPT !.pc = "raised", !.error = "ValueError"]
                   ELSE LET data == [f \in 1..Len(fields) |-> Float(fields[f])]
                        IN  gen' = [g EXCEPT !.pc = "yield", !.data = data, !.idx = 1,
                                             !.received = gen.received \o data,
                                             !.lens = gen.lens \o <<Len(data)>>,
                                             !.yielded = gen.yielded \o <<data[1]>>]
    /\ UNCHANGED nonCnt
    /\ lastRead' = NoRead
    /\ UNCHANGED <<batch, devSmax, smax, call>>

\* Lines 87-88: the batch is compared with self.batch_size.
LastBatchOffByOne(data, batch_size) == Len(data) <= batch_size
LastBatch(data, batch_size) == Len(data) < batch_size

Gen_Check(ok) ==
    /\ gen.pc = "check"
    /\ BatchSizeEffect(gen.inst, ok)
    /\ gen' = IF BatchSizeAsks(gen.inst) /\ ~ok
                THEN [gen EXCEPT !.pc = "raised", !.error = "TransportError"]
              ELSE IF LastBatch(gen.data, BatchSizeValue(gen.inst))
                THEN [gen EXCEPT !.pc = "done"]
              ELSE [gen EXCEPT !.pc = "fetch"]
    /\ UNCHANGED nonCnt
    /\ lastRead' = NoRead
    /\ UNCHANGED <<devSmax, devBuf, call>>

\* The counter's setting FORM:SMAX is changed at its front panel.
DeviceSetSmax(i, b) ==
    /\ devSmax[i] # b
    /\ devSmax' = [devSmax EXCEPT ![i] = b]
    /\ UNCHANGED nonCnt
    /\ lastRead' = NoRead
    /\ UNCHANGED <<batch, devBuf, smax, call, gen>>

\* The calls of buffer_time_series and of the methods it uses.
NextBTS ==
    \/ \E i \in CntInsts, ch \in ChannelArgs, n \in NSamplesArgs,
          r \in SampleRateArgs, t \in TriggerArgs : BTS_Call(i, ch, n, r, t)
    \/ \E ok \in BOOLEAN, reply \in {"1\n", "0\n"} : BTS_Step(ok, reply)
    \/ \E i \in CntInsts, ch \in ChannelArgs, n \in NSamplesArgs, ok \in BOOLEAN :
          ConfigureCall(i, n, ch, ok)
    \/ \E i \in CntInsts, t \in TriggerArgs, ok \in BOOLEAN : ArmCall(i, t, ok)

\* The reads of batch_size and the generators of read_buffer.
NextBuf ==
    \/ \E i \in CntInsts, ok \in BOOLEAN : ReadBatchSize(i, ok)
    \/ \E i \in GenInsts : ReadBufferCall(i)
    \/ Gen_Next
    \/ \E ok \in BOOLEAN : Gen_Fetch(ok)
    \/ \E ok \in BOOLEAN : Gen_Check(ok)
    \/ \E i \in CntInsts, b \in 1..MaxBatch : DeviceSetSmax(i, b)

\* After construction no CNT91 object has the attribute _batch_size.  The
\* counters hold nothing to read out in SpecBTS.
InitBTS ==
    /\ batch = [i \in CntInsts |-> NoAttr]
    /\ devSmax = [i \in CntInsts |-> 1]
    /\ devBuf = [i \in CntInsts |-> <<>>]
    /\ smax = [i \in CntInsts |-> [sent |-> 0, failed |-> FALSE, first |-> 0]]
    /\ lastRead = NoRead
    /\ call = NoCall
    /\ gen = NoGen
    /\ hmpSel = 1 /\ attrOp = NoOp
    /\ objs = {} /\ subOp = NoOp
    /\ hmpActive = [c \in 1..4 |-> FALSE] /\ act = NoOp
    /\ harness = NoOp /\ t3ds = NoOp /\ afg = NoOp

\* In SpecBuf the counter of c1 holds the values 1..n of a finished measurement.
InitBuf ==
    /\ batch = [i \in CntInsts |-> NoAttr]
    /\ devSmax \in [CntInsts -> 1..MaxBatch]
    /\ \E n \in 0..MaxBuf :
          devBuf = [i \in CntInsts |-> IF i \in GenInsts THEN [k \in 1..n |-> k] ELSE <<>>]
    /\ smax = [i \in CntInsts |-> [sent |-> 0, failed |-> FALSE, first |-> 0]]
    /\ lastRead = NoRead
    /\ call = NoCall
    /\ gen = NoGen
    /\ hmpSel = 1 /\ attrOp = NoOp
    /\ objs = {} /\ subOp = NoOp
    /\ hmpActive = [c \in 1..4 |-> FALSE] /\ act = NoOp
    /\ harness = NoOp /\ t3ds = NoOp /\ afg = NoOp

SpecBTS == InitBTS /\ [][NextBTS]_vars

SpecBuf == InitBuf /\ [][NextBuf]_vars

\* The generators of read_buffer on counters whose setting FORM:SMAX stays as
\* it is.
NextRead ==
    \/ \E i \in CntInsts, ok \in BOOLEAN : ReadBatchSize(i, ok)
    \/ \E i \in GenInsts : ReadBufferCall(i)
    \/ Gen_Next
    \/ \E ok \in BOOLEAN : Gen_Fetch(ok)
    \/ \E ok \in BOOLEAN : Gen_Check(ok)

SpecRead == InitBuf /\ [][NextRead]_vars

----------------------------------------------------------------------------
(* Claims about the CNT91.                                                 *)

Last(seq) == seq[Len(seq)]

\* C1: read_buffer sends :FETC:ARR? MAX once per batch and yields the values
\* of the replies in the order received; every reply but the last one fetched
\* holds at least batch_size values (after a reply with fewer values nothing
\* more is fetched), a reply of batch_size values is followed by another
\* fetch, and the generator ends after the first reply with fewer values.
\* (A fetch on which the transport raises ends the generator at once.)
C1_ReadBufferBatches ==
    (gen.pc # "none" /\ gen.error # "TransportError") =>
        LET n == Len(gen.lens)
            bs == batch[gen.inst]
            unyielded == IF gen.pc = "yield" THEN Len(gen.data) - gen.idx ELSE 0
        IN  /\ gen.yielded = SubSeq(gen.received, 1, Len(gen.received) - unyielded)
            /\ gen.fetches = n + (IF gen.pc = "raised" THEN 1 ELSE 0)
            /\ \A k \in 1..(n - 1) : bs # NoAttr /\ gen.lens[k] >= bs
            /\ (gen.pc = "fetch" /\ n >= 1) => (bs # NoAttr /\ Last(gen.lens) >= bs)
            /\ gen.pc = "done" => (n >= 1 /\ bs # NoAttr /\ Last(gen.lens) < bs)
            /\ gen.pc = "raised" => gen.error = "ValueError"

C1_Witness ==
    /\ gen.pc = "done" /\ gen.error = ""
    /\ Len(gen.lens) >= 2
    /\ gen.lens[1] = batch[gen.inst]
    /\ gen.yielded = gen.received /\ Len(gen.yielded) >= 3

\* C4: FORM:SMAX? is sent at most once per instance (the transport not failing
\* it), a read of batch_size after that sends nothing and gives the answer to
\* that first query, whatever the counter's setting is by then, and the cached
\* value of an instance changes only when it is first set, by a read of that
\* same instance.
C4_Cached ==
    /\ \A i \in CntInsts :
          /\ ~smax[i].failed => smax[i].sent <= 1
          /\ batch[i] # NoAttr => (smax[i].sent >= 1 /\ batch[i] = smax[i].first)
    /\ (lastRead # NoRead /\ lastRead.error = "") =>
          /\ lastRead.value = smax[lastRead.inst].first
          /\ lastRead.value = batch[lastRead.inst]

C4_Step ==
    \A i \in CntInsts :
        /\ batch[i] # NoAttr => (batch'[i] = batch[i] /\ smax'[i] = smax[i])
        /\ batch'[i] # batch[i] =>
              \/ lastRead'.inst = i /\ lastRead'.asked
              \/ gen.inst = i /\ gen.pc = "check"

C4_SetOnceReadMany == [](C4_Cached) /\ [][C4_Step]_vars

C4_Witness ==
    /\ lastRead.inst = "c1" /\ ~lastRead.asked /\ lastRead.error = ""
    /\ lastRead.value = batch["c1"]
    /\ devSmax["c1"] # batch["c1"]
    /\ smax["c1"].sent = 1
    /\ batch["c2"] # NoAttr /\ batch["c2"] # batch["c1"]

\* The arguments buffer_time_series accepts.
ValidArgs(c) ==
    /\ c.sample_rate > 0 /\ c.sample_rate <= MAX_SAMPLE_RATE
    /\ c.n_samples <= MAX_N_SAMPLES
    /\ c.channel \in DOMAIN CHANNELS
    /\ Truthy(c.trigger_source) => c.trigger_source \in DOMAIN TRIGGER_SOURCES

IsBTS == call.op = "buffer_time_series"
NoTransportError == call.error # "TransportError"

\* The commands of a call with valid arguments up to and including :INIT, as
\* the documentation of buffer_time_series and of the attribute format
\* ("FORM %s") give them.
ExpectedCommands(c) ==
    <<"*CLS", "FORM " \o "ASCII",
      ":CONF:ARR:FREQ " \o ToString(c.n_samples) \o ",(@"
          \o ToString(CHANNELS[c.channel]) \o ")",
      ":INIT:CONT OFF",
      ":ACQ:APER " \o MeasurementTime(c.sample_rate)>>
    \o (IF Truthy(c.trigger_source)
        THEN <<"ARM:SOUR " \o TRIGGER_SOURCES[c.trigger_source] \o "; ARM:SLOP POS">>
        ELSE <<>>)
    \o <<":INIT">>

\* C2: a call of buffer_time_series with valid arguments sends clear, the
\* format setting, the configuration, :INIT:CONT OFF, :ACQ:APER, the optional
\* ARM:SOUR and :INIT in this order, then only *OPC? polls, and returns only
\* after a poll was answered "1".
C2_CommandOrder ==
    (IsBTS /\ ValidArgs(call) /\ NoTransportError) =>
        LET e == ExpectedCommands(call)
        IN  /\ \A k \in 1..Len(call.sent) :
                  call.sent[k] = (IF k <= Len(e) THEN e[k] ELSE "*OPC?")
            /\ call.pc = "returned" =>
                  (Len(call.sent) > Len(e) /\ call.polls # <<>> /\ Last(call.polls) = "1")

\* C3: a call of buffer_time_series with valid arguments that has ended (the
\* transport not failing) has returned, and has fetched the buffer after the
\* counter reported the operation complete.
C3_ReadsBufferAfterCompletion ==
    (IsBTS /\ ValidArgs(call) /\ NoTransportError /\ CallEnded) =>
        /\ call.pc = "returned"
        /\ \E k \in 1..Len(call.sent) :
              /\ call.sent[k] = ":FETC:ARR? MAX"
              /\ \E j \in 1..(k - 1) : call.sent[j] = "*OPC?"

\* C5: the completion wait of buffer_time_series ends only by a poll answered
\* "1": a call with valid arguments never ends otherwise (the transport not
\* failing), so it returns once the counter answers "1" and polls until then.
C5_WaitEndsOnlyOnCompletion ==
    (IsBTS /\ ValidArgs(call) /\ NoTransportError) =>
        /\ call.pc # "raised"
        /\ call.pc = "returned" => (call.polls # <<>> /\ Last(call.polls) = "1")

\* C7: a call of buffer_time_series with n_samples above MAX_N_SAMPLES, or
\* with a trigger source other than A, B and REAR, sends no command at all.
InvalidSamplesOrTrigger(c) ==
    \/ c.n_samples > MAX_N_SAMPLES
    \/ Truthy(c.trigger_source) /\ c.trigger_source \notin DOMAIN TRIGGER_SOURCES

C7_InvalidArgsSendNothing ==
    (IsBTS /\ InvalidSamplesOrTrigger(call) /\ NoTransportError) => call.sent = <<>>

----------------------------------------------------------------------------
(* Attribute setters and checked methods of the HMP4040 power supply       *)
(* (hmp.py) and of the RTE oscilloscope (rte.py).                          *)
(*                                                                         *)
(* The arguments of the discrete settings are integers.  Voltages and      *)
(* percentages are counted in hundredths, so that 3205 stands for 32.05.   *)

\* str() of a number given in hundredths: 3205 -> "32.05", 100 -> "1"
PyStr(x) ==
    LET w == x \div 100
        f == x % 100
    IN  IF f = 0 THEN ToString(w)
        ELSE IF f % 10 = 0 THEN ToString(w) \o "." \o ToString(f \div 10)
        ELSE ToString(w) \o "." \o ToString(f \div 10) \o ToString(f % 10)

\* validators.strict_discrete_set: the value if it is one of values, ValueError
\* otherwise
StrictDiscreteSet(value, values) ==
    [error |-> IF value \in values THEN "" ELSE "ValueError", value |-> value]

\* validators.truncated_range: the value if it lies in the range, the nearest
\* bound of the range otherwise
TruncatedRange(value, values) ==
    [error |-> "",
     value |-> IF value < values[1] THEN values[1]
               ELSE IF value > values[2] THEN values[2] ELSE value]

\* The setter made by Instrument.control / Instrument.setting: the validated
\* value is formatted into the set command, which is written.
ControlSet(set_command, validated, text) ==
    IF validated.error # "" THEN Raise(validated.error)
    ELSE Done(<<set_command \o text>>)

\* HMP4040.selected_channel, assigned
HMP_SelectedChannelSet(value) ==
    LET v == StrictDiscreteSet(value, {1, 2, 3, 4})
    IN  ControlSet("INST:NSEL ", v, ToString(v.value))

\* HMP4040.repetitions, assigned
HMP_RepetitionsSet(value) ==
    LET v == StrictDiscreteSet(value, 0..255)
    IN  ControlSet("ARB:REP ", v, ToString(v.value))

\* HMP4040.voltage_step, assigned
VoltageStepValues == <<0, 3205>>
HMP_VoltageStepUnchecked(value) ==
    ControlSet("VOLT:STEP ", [error |-> "", value |-> value], PyStr(value))
HMP_VoltageStepSet(value) ==
    LET v == TruncatedRange(value, VoltageStepValues)
    IN  ControlSet("VOLT:STEP ", v, PyStr(v.value))

\* RTE.time_ref, assigned
TimeRefValues == <<100, 10000>>
RTE_TimeRefSet(value) ==
    LET v == TruncatedRange(value, TimeRefValues)
    IN  ControlSet("TIMebase:REFerence ", v, PyStr(v.value))

\* process_sequence(sequence), values in hundredths: the text for ARB:DATA, or
\* ValueError
process_sequence_any_dwell(sequence) ==
    IF ~(Len(sequence) % 3 = 0) THEN [error |-> "ValueError", value |-> ""]
    ELSE [error |-> "",
          value |-> Join(",", [k \in 1..Len(sequence) |-> PyStr(sequence[k])])]
process_sequence(sequence) ==
    IF ~(Len(sequence) % 3 = 0) THEN [error |-> "ValueError", value |-> ""]
    ELSE IF \E k \in 1..Len(sequence) :
                (k - 1) % 3 = 2 /\ (sequence[k] > 1000 \/ sequence[k] < 6)
      THEN [error |-> "ValueError", value |-> ""]
    ELSE [error |-> "",
          value |-> Join(",", [k \in 1..Len(sequence) |-> PyStr(sequence[k])])]

\* HMP4040.sequence, assigned
HMP_SequenceSet(value) ==
    LET v == process_sequence(value)
    IN  ControlSet("ARB:DATA ", v, v.value)

\* The methods that check their argument themselves.
CheckedWrite(command, validated) ==
    IF validated.error # "" THEN Raise(validated.error)
    ELSE Done(<<command \o ToString(validated.value)>>)

HMP_ClearSequenceUnchecked(channel) == Done(<<"ARB:CLEAR " \o ToString(channel)>>)
HMP_ClearSequence(channel) ==
    CheckedWrite("ARB:CLEAR ", StrictDiscreteSet(channel, {1, 2, 3, 4}))
HMP_LoadSequence(slot) ==
    CheckedWrite("ARB:REST ", StrictDiscreteSet(slot, {1, 2, 3}))
HMP_SaveSequence(slot) ==
    CheckedWrite("ARB:SAVE ", StrictDiscreteSet(slot, {1, 2, 3}))
HMP_StartSequence(channel) ==
    CheckedWrite("ARB:START ", StrictDiscreteSet(channel, {1, 2, 3, 4}))
HMP_StopSequence(channel) ==
    CheckedWrite("ARB:STOP ", StrictDiscreteSet(channel, {1, 2, 3, 4}))
HMP_TransferSequence(channel) ==
    CheckedWrite("ARB:TRAN ", StrictDiscreteSet(channel, {1, 2, 3, 4}))

\* The arguments the operations are tried with.
ChannelNumbers == 0..5
SlotNumbers == 0..4
RepetitionArgs == {-1, 0, 1, 255, 256}
VoltageStepArgs == {-100, 0, 50, 3200, 3205, 3300}
TimeRefArgs == {0, 100, 5000, 10000, 10100}
SequenceValues == {5, 6, 1000, 1001}

\* One operation: r is what the method does, ok whether the transport carries
\* the command.  A written INST:NSEL selects the channel on the supply.
Perform(op, arg, r, ok) ==
    /\ attrOp' = [op |-> op,
                  error |-> IF r.error # "" THEN r.error
                            ELSE IF ok THEN "" ELSE "TransportError",
                  arg |-> arg, written |-> r.cmds]
    /\ hmpSel' = IF op = "selected_channel" /\ r.error = "" /\ ok THEN arg ELSE hmpSel
    /\ UNCHANGED cntVars
    /\ UNCHANGED <<subVars, actVars, restVars>>

SetSelectedChannel(v, ok) == Perform("selected_channel", v, HMP_SelectedChannelSet(v), ok)
SetRepetitions(v, ok) == Perform("repetitions", v, HMP_RepetitionsSet(v), ok)
SetVoltageStep(v, ok) == Perform("voltage_step", v, HMP_VoltageStepSet(v), ok)
SetTimeRef(v, ok) == Perform("time_ref", v, RTE_TimeRefSet(v), ok)
ClearSequence(c, ok) == Perform("clear_sequence", c, HMP_ClearSequence(c), ok)
LoadSequence(n, ok) == Perform("load_sequence", n, HMP_LoadSequence(n), ok)
SaveSequence(n, ok) == Perform("save_sequence", n, HMP_SaveSequence(n), ok)
StartSequence(c, ok) == Perform("start_sequence", c, HMP_StartSequence(c), ok)
StopSequence(c, ok) == Perform("stop_sequence", c, HMP_StopSequence(c), ok)
TransferSequence(c, ok) == Perform("transfer_sequence", c, HMP_TransferSequence(c), ok)

InitAttr ==
    /\ batch = [i \in CntInsts |-> NoAttr]
    /\ devSmax = [i \in CntInsts |-> 1]
    /\ devBuf = [i \in CntInsts |-> <<>>]
    /\ smax = [i \in CntInsts |-> [sent |-> 0, failed |-> FALSE, first |-> 0]]
    /\ lastRead = NoRead
    /\ call = NoCall
    /\ gen = NoGen
    /\ hmpSel \in {1, 2, 3, 4} /\ attrOp = NoOp
    /\ objs = {} /\ subOp = NoOp
    /\ hmpActive = [c \in 1..4 |-> FALSE] /\ act = NoOp
    /\ harness = NoOp /\ t3ds = NoOp /\ afg = NoOp

NextAttr ==
    \/ \E v \in ChannelNumbers, ok \in BOOLEAN : SetSelectedChannel(v, ok)
    \/ \E v \in RepetitionArgs, ok \in BOOLEAN : SetRepetitions(v, ok)
    \/ \E v \in VoltageStepArgs, ok \in BOOLEAN : SetVoltageStep(v, ok)
    \/ \E v \in TimeRefArgs, ok \in BOOLEAN : SetTimeRef(v, ok)
    \/ \E c \in ChannelNumbers, ok \in BOOLEAN : ClearSequence(c, ok)
    \/ \E n \in SlotNumbers, ok \in BOOLEAN : LoadSequence(n, ok)
    \/ \E n \in SlotNumbers, ok \in BOOLEAN : SaveSequence(n, ok)
    \/ \E c \in ChannelNumbers, ok \in BOOLEAN : StartSequence(c, ok)
    \/ \E c \in ChannelNumbers, ok \in BOOLEAN : StopSequence(c, ok)
    \/ \E c \in ChannelNumbers, ok \in BOOLEAN : TransferSequence(c, ok)

SpecAttr == InitAttr /\ [][NextAttr]_vars

\* C6: the checked operations of the HMP4040 with an argument outside their
\* set raise ValueError and write nothing; with an argument of the set they
\* write exactly one command, which carries the argument.
C6_Command ==
    [op \in {"clear_sequence", "start_sequence", "stop_sequence", "transfer_sequence",
             "load_sequence", "save_sequence", "selected_channel", "repetitions"} |->
        CASE op = "clear_sequence" -> "ARB:CLEAR "
          [] op = "start_sequence" -> "ARB:START "
          [] op = "stop_sequence" -> "ARB:STOP "
          [] op = "transfer_sequence" -> "ARB:TRAN "
          [] op = "load_sequence" -> "ARB:REST "
          [] op = "save_sequence" -> "ARB:SAVE "
          [] op = "selected_channel" -> "INST:NSEL "
          [] OTHER -> "ARB:REP "]

C6_Accepted(op) ==
    CASE op \in {"load_sequence", "save_sequence"} -> 1..3
      [] op = "repetitions" -> 0..255
      [] OTHER -> 1..4

C6_InvalidArgumentWritesNothing ==
    attrOp.op \in DOMAIN C6_Command =>
        IF attrOp.arg \in C6_Accepted(attrOp.op)
        THEN /\ attrOp.written = <<C6_Command[attrOp.op] \o ToString(attrOp.arg)>>
             /\ attrOp.error \in {"", "TransportError"}
        ELSE /\ attrOp.written = <<>>
             /\ attrOp.error = "ValueError"

C6_Witness ==
    /\ attrOp.op = "clear_sequence" /\ attrOp.arg = 5
    /\ attrOp.error = "ValueError" /\ attrOp.written = <<>>

\* C8 as claimed: assigning voltage_step a value outside [0, 32.05], or
\* time_ref a value outside [1, 100], raises an error and writes nothing.
C8_Range(op) == IF op = "voltage_step" THEN VoltageStepValues ELSE TimeRefValues
C8_OutOfRange ==
    /\ attrOp.op \in {"voltage_step", "time_ref"}
    /\ \/ attrOp.arg < C8_Range(attrOp.op)[1]
       \/ attrOp.arg > C8_Range(attrOp.op)[2]

PendingSequence(v) == [op |-> "assign", error |-> "", arg |-> v, written |-> <<>>]

SetSequence(ok) ==
    /\ attrOp.op = "assign"
    /\ Perform("sequence", attrOp.arg, HMP_SequenceSet(attrOp.arg), ok)

InitSeq ==
    /\ batch = [i \in CntInsts |-> NoAttr]
    /\ devSmax = [i \in CntInsts |-> 1]
    /\ devBuf = [i \in CntInsts |-> <<>>]
    /\ smax = [i \in CntInsts |-> [sent |-> 0, failed |-> FALSE, first |-> 0]]
    /\ lastRead = NoRead
    /\ call = NoCall
    /\ gen = NoGen
    /\ hmpSel = 1
    /\ attrOp \in {PendingSequence(v) : v \in SeqsUpTo(SequenceValues, MaxSeqLen)}
    /\ objs = {} /\ subOp = NoOp
    /\ hmpActive = [c \in 1..4 |-> FALSE] /\ act = NoOp
    /\ harness = NoOp /\ t3ds = NoOp /\ afg = NoOp

NextSeq == \E ok \in BOOLEAN : SetSequence(ok)

SpecSeq == InitSeq /\ [][NextSeq]_vars

\* C12: assigning HMP4040.sequence a list whose length is no multiple of 3
\* raises ValueError; otherwise a list with a dwell time (every third value)
\* above 10 or below 0.06 raises ValueError; every other list is written as
\* one ARB:DATA command with the values joined by commas in their order, and
\* ARB:DATA is written in no other case.
C12_Triple(s, k) == PyStr(s[k]) \o "," \o PyStr(s[k + 1]) \o "," \o PyStr(s[k + 2])

C12_Text(s) ==
    CASE Len(s) = 0 -> ""
      [] Len(s) = 3 -> C12_Triple(s, 1)
      [] Len(s) = 6 -> C12_Triple(s, 1) \o "," \o C12_Triple(s, 4)
      [] OTHER -> C12_Triple(s, 1) \o "," \o C12_Triple(s, 4) \o "," \o C12_Triple(s, 7)

C12_Rejected(s) ==
    \/ Len(s) % 3 # 0
    \/ \E k \in {3, 6, 9} : k <= Len(s) /\ (s[k] > 1000 \/ s[k] < 6)

C12_SequenceChecked ==
    attrOp.op = "sequence" =>
        IF C12_Rejected(attrOp.arg)
          THEN attrOp.error = "ValueError" /\ attrOp.written = <<>>
        ELSE /\ attrOp.error \in {"", "TransportError"}
             /\ attrOp.written = <<"ARB:DATA " \o C12_Text(attrOp.arg)>>

C12_Witness ==
    /\ attrOp.op = "sequence" /\ attrOp.error = ""
    /\ attrOp.arg = <<1001, 5, 6, 5, 1001, 1000>>
    /\ attrOp.written = <<"ARB:DATA 10.01,0.05,0.06,0.05,10.01,10">>

----------------------------------------------------------------------------
(* The channel and mode sub-objects: RTE.Channel (rte.py),                 *)
(* T3DS01204.Channel (t3ds01204.py), Channel of afg3152c.py, Channel and   *)
(* Mode (BurstMode, PulseMode, SweepMode) of afg3100.py.                   *)
(*                                                                         *)
(* A sub-object is [kind, n, slot]: n is the number kept by __init__       *)
(* (num, number or channel_number), slot the k of the property channel<k>  *)
(* that made it, 0 for an object made by its constructor.                  *)

ModeKinds == {"BurstMode", "PulseMode", "SweepMode"}

\* Channel.__init__ / Mode.__init__: the number is kept as given
NewObject(kind, number, slot) == [n |-> number, slot |-> slot, kind |-> kind]

\* RTE.channel1 .. channel4
RTE_ChannelNumber(k) == CASE k = 1 -> 1 [] k = 2 -> 2 [] k = 3 -> 3 [] OTHER -> 4
RTE_channel(k) == NewObject("RTE.Channel", RTE_ChannelNumber(k), k)

\* T3DS01204.channel1 .. channel4
T3DS_ChannelNumber(k) == CASE k = 1 -> 1 [] k = 2 -> 2 [] k = 3 -> 3 [] OTHER -> 4
T3DS_channel(k) == NewObject("T3DS01204.Channel", T3DS_ChannelNumber(k), k)

\* AFG3152C.__init__ of afg3152c.py: ch1 and ch2
AFG3152C_Channels == {NewObject("afg3152c.Channel", 1, 0), NewObject("afg3152c.Channel", 2, 0)}

\* Channel.__init__ of afg3100.py: self.instrumet is no attribute of the
\* channel, so SweepMode(self.instrumet, ...) raises AttributeError and no
\* Channel of afg3100.py is ever constructed.
AFG3100_ChannelInit(number) == Raise("AttributeError")

\* The scope a sub-object puts before the caller's command in write, ask and
\* values.
ScopeWithoutNumber(kind, via, n) ==
    CASE kind = "RTE.Channel" -> "CHANnel:"
      [] kind = "T3DS01204.Channel" -> "C:"
      [] OTHER -> "source:"
SubScope(kind, via, n) ==
    CASE kind = "RTE.Channel" -> "CHANnel" \o ToString(n) \o ":"
      [] kind = "T3DS01204.Channel" -> "C" \o ToString(n) \o ":"
      [] kind \in {"afg3152c.Channel", "afg3100.Channel"} ->
            "source" \o ToString(n) \o ":"
      [] OTHER ->   \* Mode
            IF via = "values" THEN "source" \o ToString(n) \o ":"
            ELSE "SOUR" \o ToString(n) \o ":"

\* Python's format 'd.ddddddE+xx' of a natural number below ten million
RECURSIVE Pow10(_)
Pow10(k) == IF k = 0 THEN 1 ELSE 10 * Pow10(k - 1)
RECURSIVE Exponent(_)
Exponent(x) == IF x < 10 THEN 0 ELSE 1 + Exponent(x \div 10)
Format6E(x) ==
    LET e == Exponent(x)
        scaled == x * Pow10(6 - e)
        digit(k) == ToString((scaled \div Pow10(k)) % 10)
    IN  digit(6) \o "." \o digit(5) \o digit(4) \o digit(3) \o digit(2) \o digit(1)
        \o digit(0) \o "E+" \o (IF e < 10 THEN "0" ELSE "") \o ToString(e)

\* Channel.waveform of afg3152c.py: four commands go through Channel.write,
\* the third with the text %s left after the unit; the fifth is written by
\* the instrument itself and its text is no f-string.
Waveform3152(n, shape, frequency, units, amplitude, offset) ==
    <<SubScope("afg3152c.Channel", "write", n) \o "function:shape " \o shape,
      SubScope("afg3152c.Channel", "write", n) \o "frequency:fixed " \o Format6E(frequency),
      SubScope("afg3152c.Channel", "write", n) \o "voltage:unit " \o units \o "%s",
      SubScope("afg3152c.Channel", "write", n) \o "voltage:amplitude "
          \o Format6E(amplitude) \o units,
      "voltage:offset {offset:.6E}V">>

\* The arguments the operations are tried with.
CallerCommands == {"OFST?", "TRACE ON"}
ShapeArgs == {"SIN", "SQU"}
FrequencyArgs == {1000, 1000000}
UnitArgs == {"VPP", "DBM"}
AmplitudeArgs == {1, 2}
OffsetArgs == {0, 1}

Room(new) == Cardinality(objs \cup new) <= MaxObjs

\* scope.channel<k> is read on an RTE or a T3DS01204
GetChannel(o) ==
    /\ Room({o})
    /\ objs' = objs \cup {o}
    /\ subOp' = [op |-> "channel", error |-> "", command |-> "", written |-> <<>>, obj |-> o]
    /\ UNCHANGED cntVars
    /\ UNCHANGED <<attrVars, actVars, restVars>>

\* AFG3152C(adapter) of afg3152c.py
ConstructAFG3152C ==
    /\ Room(AFG3152C_Channels)
    /\ objs' = objs \cup AFG3152C_Channels
    /\ subOp' = [op |-> "AFG3152C", error |-> "", command |-> "", written |-> <<>>,
                 obj |-> NoOp]
    /\ UNCHANGED cntVars
    /\ UNCHANGED <<attrVars, actVars, restVars>>

\* AFG3102(adapter) / AFG3152C(adapter) of afg3100.py: AFG3100Series.__init__
\* stops in Channel(self, 1).
ConstructAFG3100 ==
    /\ LET r == AFG3100_ChannelInit(1)
       IN  /\ objs' = IF r.error = ""
                      THEN objs \cup {NewObject("afg3100.Channel", 1, 0),
                                      NewObject("afg3100.Channel", 2, 0)}
                      ELSE objs
           /\ subOp' = [op |-> "AFG3100Series", error |-> r.error, command |-> "",
                        written |-> <<>>, obj |-> NoOp]
    /\ UNCHANGED cntVars
    /\ UNCHANGED <<attrVars, actVars, restVars>>

\* BurstMode(instrument, n), PulseMode(instrument, n), SweepMode(instrument, n)
ConstructMode(kind, n) ==
    /\ Room({NewObject(kind, n, 0)})
    /\ objs' = objs \cup {NewObject(kind, n, 0)}
    /\ subOp' = [op |-> "Mode", error |-> "", command |-> "",
                 written |-> <<>>, obj |-> NewObject(kind, n, 0)]
    /\ UNCHANGED cntVars
    /\ UNCHANGED <<attrVars, actVars, restVars>>

\* o.write(command), o.ask(command), o.values(command)
SubSend(o, via, command) ==
    /\ o \in objs
    /\ subOp' = [op |-> via, error |-> "", command |-> command,
                 written |-> <<SubScope(o.kind, via, o.n) \o command>>, obj |-> o]
    /\ UNCHANGED objs
    /\ UNCHANGED cntVars
    /\ UNCHANGED <<attrVars, actVars, restVars>>

\* ch.waveform(shape, frequency, units, amplitude, offset) on a channel of
\* afg3152c.py
Waveform(o, shape, frequency, units, amplitude, offset) ==
    /\ o \in objs /\ o.kind = "afg3152c.Channel"
    /\ subOp' = [op |-> "waveform", error |-> "",
                 command |-> <<shape, frequency, units, amplitude, offset>>,
                 written |-> Waveform3152(o.n, shape, frequency, units, amplitude, offset),
                 obj |-> o]
    /\ UNCHANGED objs
    /\ UNCHANGED cntVars
    /\ UNCHANGED <<attrVars, actVars, restVars>>

\* RTE.data_format read: the reply to FORMat:DATA?, split at the commas, is a
\* list when it has several fields and the field itself when it has one;
\* get_waveform takes element 0 of it (of a str, its first character).
DataFormatReplies == {<<"ASC", "0">>, <<"REAL", "32">>, <<"INT", "8">>, <<"ASC">>}
FirstChar(text) == CASE text = "ASC" -> "A" [] text = "REAL" -> "R" [] OTHER -> "I"
DataFormatFirst(fields) == IF Len(fields) = 1 THEN FirstChar(fields[1]) ELSE fields[1]

\* line 113
AnyFormat(first) == TRUE
IsAsciiFormat(first) == first = "ASC"

\* RTE.Channel.get_waveform(offset, length) on channel n, the oscilloscope
\* answering FORMat:DATA? with the fields reply
RTE_GetWaveform(n, offset, length, reply) ==
    IF ~IsAsciiFormat(DataFormatFirst(reply))
      THEN [cmds |-> <<"FORMat:DATA?">>, error |-> "NotImplementedError"]
    ELSE Done(<<"FORMat:DATA?",
                SubScope("RTE.Channel", "values", n) \o "DATA?"
                    \o (IF IsTrue(offset) THEN " " \o FStr(offset) ELSE "")
                    \o (IF IsTrue(length) THEN " " \o FStr(length) ELSE "")>>)

OffsetLengthArgs == {PyNone, PyInt(0), PyInt(5)}

\* ch.get_waveform(offset, length) on a channel of an RTE
GetWaveform(o, offset, length, reply) ==
    /\ o \in objs /\ o.kind = "RTE.Channel"
    /\ LET r == RTE_GetWaveform(o.n, offset, length, reply)
       IN  subOp' = [op |-> "get_waveform", error |-> r.error,
                     command |-> [reply |-> reply, offset |-> offset, length |-> length],
                     written |-> r.cmds, obj |-> o]
    /\ UNCHANGED objs
    /\ UNCHANGED cntVars
    /\ UNCHANGED <<attrVars, actVars, restVars>>

InitSub ==
    /\ batch = [i \in CntInsts |-> NoAttr]
    /\ devSmax = [i \in CntInsts |-> 1]
    /\ devBuf = [i \in CntInsts |-> <<>>]
    /\ smax = [i \in CntInsts |-> [sent |-> 0, failed |-> FALSE, first |-> 0]]
    /\ lastRead = NoRead
    /\ call = NoCall
    /\ gen = NoGen
    /\ hmpSel = 1 /\ attrOp = NoOp
    /\ objs = {} /\ subOp = NoOp
    /\ hmpActive = [c \in 1..4 |-> FALSE] /\ act = NoOp
    /\ harness = NoOp /\ t3ds = NoOp /\ afg = NoOp

NextSub ==
    \/ \E k \in 1..4 : GetChannel(RTE_channel(k))
    \/ \E k \in 1..4 : GetChannel(T3DS_channel(k))
    \/ ConstructAFG3152C
    \/ ConstructAFG3100
    \/ \E kind \in ModeKinds, n \in 1..2 : ConstructMode(kind, n)
    \/ \E o \in objs, via \in {"write", "ask", "values"}, c \in CallerCommands :
          SubSend(o, via, c)
    \/ \E o \in objs, sh \in ShapeArgs, f \in FrequencyArgs, u \in UnitArgs,
          a \in AmplitudeArgs, off \in OffsetArgs : Waveform(o, sh, f, u, a, off)
    \/ \E o \in objs, offset \in OffsetLengthArgs, length \in OffsetLengthArgs,
          reply \in DataFormatReplies : GetWaveform(o, offset, length, reply)

SpecSub == InitSub /\ [][NextSub]_vars


\* C9: what a sub-object sends through write, ask or values is the caller's
\* command behind the scope of the sub-object with the number it was
\* constructed with; channel<k> of an RTE or a T3DS01204 has the number k; no
\* operation changes the number of a sub-object.
C9_Scopes(o) ==
    CASE o.kind = "RTE.Channel" -> {"CHANnel" \o ToString(o.n) \o ":"}
      [] o.kind = "T3DS01204.Channel" -> {"C" \o ToString(o.n) \o ":"}
      [] OTHER -> {"source" \o ToString(o.n) \o ":", "SOUR" \o ToString(o.n) \o ":"}

C9_Scoped ==
    /\ subOp.op \in {"write", "ask", "values"} =>
          /\ subOp.obj \in objs
          /\ \E scope \in C9_Scopes(subOp.obj) :
                subOp.written = <<scope \o subOp.command>>
    /\ \A o \in objs : o.slot # 0 => o.n = o.slot

C9_ScopedCommands == [](C9_Scoped) /\ [][objs \subseteq objs']_vars

C9_Witness ==
    /\ subOp.op = "values" /\ subOp.obj.kind \in ModeKinds /\ subOp.obj.n = 2
    /\ subOp.written = <<"source2:OFST?">>
    /\ \E o \in objs : o.kind = "RTE.Channel" /\ o.slot = 3 /\ o.n = 3

\* C17: get_waveform of an RTE channel first queries the data format; when
\* the oscilloscope reports a format other than ASCII it raises
\* NotImplementedError and sends no CHANnel<n>:DATA? query; a DATA? query is
\* sent only after the format was reported as ASCII.
C17_ReportedAscii == subOp.command.reply[1] = "ASC"

C17_AsciiOnly ==
    subOp.op = "get_waveform" =>
        /\ Len(subOp.written) >= 1 /\ subOp.written[1] = "FORMat:DATA?"
        /\ ~C17_ReportedAscii =>
              subOp.error = "NotImplementedError" /\ Len(subOp.written) = 1
        /\ Len(subOp.written) > 1 => C17_ReportedAscii

C17_Witness ==
    /\ subOp.op = "get_waveform" /\ subOp.command.reply = <<"REAL", "32">>
    /\ subOp.error = "NotImplementedError" /\ subOp.written = <<"FORMat:DATA?">>
    /\ \E o \in objs : o.kind = "RTE.Channel"

\* C18: the query of get_waveform(offset, length) is CHANnel<n>:DATA? followed
\* by the offset and then the length, for every offset and length that is
\* given (not None); the first number of the query is the offset, a given
\* length never stands in its place; with both omitted the query is exactly
\* CHANnel<n>:DATA?.
C18_Given(x) == IsInt(x)

C18_OffsetThenLength ==
    (subOp.op = "get_waveform" /\ subOp.error = "") =>
        LET offset == subOp.command.offset
            length == subOp.command.length
            query == "CHANnel" \o ToString(subOp.obj.n) \o ":DATA?"
        IN  /\ Len(subOp.written) = 2
            /\ (C18_Given(offset) /\ C18_Given(length)) =>
                  subOp.written[2] = query \o " " \o ToString(offset.int)
                                           \o " " \o ToString(length.int)
            /\ (C18_Given(offset) /\ ~C18_Given(length)) =>
                  subOp.written[2] = query \o " " \o ToString(offset.int)
            /\ (~C18_Given(offset) /\ C18_Given(length)) =>
                  subOp.written[2] # query \o " " \o ToString(length.int)
            /\ (~C18_Given(offset) /\ ~C18_Given(length)) => subOp.written[2] = query

\* C10: the five commands of Channel.waveform of afg3152c.py (shape,
\* frequency, unit, amplitude, offset) each carry the scope source<n>: of the
\* channel and the formatted value of their argument, and nothing else.
C10_WaveformCommands ==
    subOp.op = "waveform" =>
        LET scope == "source" \o ToString(subOp.obj.n) \o ":"
            shape == subOp.command[1]
            frequency == subOp.command[2]
            units == subOp.command[3]
            amplitude == subOp.command[4]
            offset == subOp.command[5]
        IN  subOp.written =
                <<scope \o "function:shape " \o shape,
                  scope \o "frequency:fixed " \o Format6E(frequency),
                  scope \o "voltage:unit " \o units,
                  scope \o "voltage:amplitude " \o Format6E(amplitude) \o units,
                  scope \o "voltage:offset " \o Format6E(offset) \o "V">>

----------------------------------------------------------------------------
(* The test harness: tests/conftest.py.                                    *)
(*                                                                         *)
(* A session goes through pytest_addoption, the command line,              *)
(* pytest_configure, the collection of the test items and                  *)
(* pytest_collection_modifyitems.  An item is [keywords, markers].         *)

MaxItems == 3        \* test items collected in a session

\* pytest.mark.skip(reason="Only run when --instrument-present is given")
Skipper == [name |-> "skip", reason |-> "Only run when --instrument-present is given"]

\* a skip marker a test module puts on its own test
OwnSkip == [name |-> "skip", reason |-> "not implemented"]

\* The items a collection can give: with or without the marker
\* needs_instrument, with or without a marker of their own.
ItemKinds ==
    {[keywords |-> kw, markers |-> <<>>] : kw \in {{"test_a"}, {"test_b", "needs_instrument"}}}
    \cup {[keywords |-> kw \cup {"skip"}, markers |-> <<OwnSkip>>] :
              kw \in {{"test_c"}, {"test_d", "needs_instrument"}}}

NoSession == [phase |-> "start", options |-> {}, flag |-> FALSE, inivalues |-> {},
              collected |-> <<>>, items |-> <<>>]

\* item.add_marker(skipper)
AddMarker(item, marker) ==
    [keywords |-> item.keywords \cup {marker.name},
     markers |-> Append(item.markers, marker)]

\* line 59
HasKeywordAlways(item) == TRUE
HasKeyword(item) == "needs_instrument" \in item.keywords

\* pytest_collection_modifyitems(config, items): the items afterwards
ModifyItems(flag, items) ==
    IF ~flag
      THEN [k \in 1..Len(items) |->
                IF HasKeyword(items[k]) THEN AddMarker(items[k], Skipper) ELSE items[k]]
    ELSE items

\* pytest_addoption(parser)
pytest_addoption ==
    /\ harness.phase = "start"
    /\ harness' = [harness EXCEPT !.phase = "options",
                       !.options = {"--instrument-present", "--resource-name"}]
    /\ UNCHANGED <<cntVars, attrVars, subVars, actVars, t3ds, afg>>

\* pytest reads the command line: --instrument-present is a store_true option
\* with the default False
CommandLine(given) ==
    /\ harness.phase = "options"
    /\ harness' = [harness EXCEPT !.phase = "parsed", !.flag = given]
    /\ UNCHANGED <<cntVars, attrVars, subVars, actVars, t3ds, afg>>

\* pytest_configure(config)
pytest_configure ==
    /\ harness.phase = "parsed"
    /\ harness' = [harness EXCEPT !.phase = "configured",
                       !.inivalues = {"needs_instrument"}]
    /\ UNCHANGED <<cntVars, attrVars, subVars, actVars, t3ds, afg>>

\* pytest collects the test items
Collect(items) ==
    /\ harness.phase = "configured"
    /\ harness' = [harness EXCEPT !.phase = "collected", !.collected = items,
                       !.items = items]
    /\ UNCHANGED <<cntVars, attrVars, subVars, actVars, t3ds, afg>>

\* pytest_collection_modifyitems(config, items)
pytest_collection_modifyitems ==
    /\ harness.phase = "collected"
    /\ harness' = [harness EXCEPT !.phase = "modified",
                       !.items = ModifyItems(harness.flag, harness.items)]
    /\ UNCHANGED <<cntVars, attrVars, subVars, actVars, t3ds, afg>>

InitHarness ==
    /\ batch = [i \in CntInsts |-> NoAttr]
    /\ devSmax = [i \in CntInsts |-> 1]
    /\ devBuf = [i \in CntInsts |-> <<>>]
    /\ smax = [i \in CntInsts |-> [sent |-> 0, failed |-> FALSE, first |-> 0]]
    /\ lastRead = NoRead
    /\ call = NoCall
    /\ gen = NoGen
    /\ hmpSel = 1 /\ attrOp = NoOp
    /\ objs = {} /\ subOp = NoOp
    /\ hmpActive = [c \in 1..4 |-> FALSE] /\ act = NoOp
    /\ harness = NoSession /\ t3ds = NoOp /\ afg = NoOp

NextHarness ==
    \/ pytest_addoption
    \/ \E given \in BOOLEAN : CommandLine(given)
    \/ pytest_configure
    \/ \E items \in SeqsUpTo(ItemKinds, MaxItems) : Collect(items)
    \/ pytest_collection_modifyitems

SpecHarness == InitHarness /\ [][NextHarness]_vars

\* C11: after pytest_collection_modifyitems an item carries the skip marker of
\* the harness exactly when --instrument-present was not given and the item
\* has the keyword needs_instrument; with the flag given no item is changed,
\* and an item without the keyword is never changed.
C11_Marked(item) == \E k \in 1..Len(item.markers) : item.markers[k] = Skipper

C11_SkipOnlyWithoutFlag ==
    harness.phase = "modified" =>
        /\ Len(harness.items) = Len(harness.collected)
        /\ \A k \in 1..Len(harness.items) :
              /\ C11_Marked(harness.items[k]) <=>
                    (~harness.flag /\ "needs_instrument" \in harness.collected[k].keywords)
              /\ "needs_instrument" \notin harness.collected[k].keywords =>
                    harness.items[k] = harness.collected[k]
        /\ harness.flag => harness.items = harness.collected

C11_Witness ==
    /\ harness.phase = "modified" /\ ~harness.flag /\ Len(harness.items) = 2
    /\ C11_Marked(harness.items[1]) /\ ~C11_Marked(harness.items[2])
    /\ harness.items[2].markers = <<OwnSkip>>

----------------------------------------------------------------------------
(* HMP4040.activate_channel and deactivate_channel: hmp.py, lines 201-217. *)
(*                                                                         *)
(* The supply keeps the selected channel (hmpSel) and the active state of  *)
(* each output channel (hmpActive).  INST:NSEL selects a channel,          *)
(* OUTPUT:SEL sets the active state of the selected channel.  A call is    *)
(* modelled one statement at a time.                                       *)

NoAct == [op |-> "none", error |-> "", channel |-> 0, pc |-> "none", sent |-> <<>>,
          saved |-> 0, selBefore |-> 0, activeBefore |-> [c \in 1..4 |-> FALSE]]

ActEnded == act.pc \in {"none", "returned", "raised"}

\* get_process=lambda x: int(x) on the reply to INST:NSEL?
SelectedChannelReply == ToString(hmpSel)
SelectedChannelGet(reply) == CHOOSE v \in 1..4 : ToString(v) = reply

\* HMP4040.selected_channel_active, assigned: values={True: 1, False: 0}
HMP_SelectedChannelActiveSet(value) ==
    Done(<<"OUTPUT:SEL " \o (IF value THEN "1" ELSE "0")>>)

\* The channel selected by the last statement of the call
RestoredIsArgument(a) == a.channel
Restored(a) == a.saved

\* hmp.activate_channel(channel) / hmp.deactivate_channel(channel) is called
ActCall(op, channel) ==
    /\ ActEnded
    /\ act' = [NoAct EXCEPT !.op = op, !.channel = channel, !.pc = "query",
                            !.selBefore = hmpSel, !.activeBefore = hmpActive]
    /\ UNCHANGED <<hmpSel, hmpActive>>
    /\ UNCHANGED <<cntVars, attrOp, subVars, restVars>>

\* One statement of the call; ok says whether the transport carries its command.
Act_Step(ok) ==
    /\ ~ActEnded
    /\ CASE act.pc = "query" ->      \* selected_channel = self.selected_channel
              /\ act' = [Advance(act, Done(<<"INST:NSEL?">>), "select", ok) EXCEPT
                            !.saved = IF ok THEN SelectedChannelGet(SelectedChannelReply)
                                      ELSE act.saved]
              /\ UNCHANGED <<hmpSel, hmpActive>>
         [] act.pc = "select" ->     \* self.selected_channel = channel
              LET r == HMP_SelectedChannelSet(act.channel)
              IN  /\ act' = Advance(act, r, "active", ok)
                  /\ hmpSel' = IF r.error = "" /\ ok THEN act.channel ELSE hmpSel
                  /\ UNCHANGED hmpActive
         [] act.pc = "active" ->     \* self.selected_channel_active = True / False
              LET r == HMP_SelectedChannelActiveSet(act.op = "activate_channel")
              IN  /\ act' = Advance(act, r, "restore", ok)
                  /\ hmpActive' = IF ok
                                  THEN [hmpActive EXCEPT ![hmpSel] = (act.op = "activate_channel")]
                                  ELSE hmpActive
                  /\ UNCHANGED hmpSel
         [] OTHER ->                 \* self.selected_channel = selected_channel
              LET r == HMP_SelectedChannelSet(Restored(act))
              IN  /\ act' = Advance(act, r, "returned", ok)
                  /\ hmpSel' = IF r.error = "" /\ ok THEN Restored(act) ELSE hmpSel
                  /\ UNCHANGED hmpActive
    /\ UNCHANGED <<cntVars, attrOp, subVars, restVars>>

InitAct ==
    /\ batch = [i \in CntInsts |-> NoAttr]
    /\ devSmax = [i \in CntInsts |-> 1]
    /\ devBuf = [i \in CntInsts |-> <<>>]
    /\ smax = [i \in CntInsts |-> [sent |-> 0, failed |-> FALSE, first |-> 0]]
    /\ lastRead = NoRead
    /\ call = NoCall
    /\ gen = NoGen
    /\ hmpSel \in 1..4 /\ attrOp = NoOp
    /\ objs = {} /\ subOp = NoOp
    /\ hmpActive \in [1..4 -> BOOLEAN] /\ act = NoAct
    /\ harness = NoOp /\ t3ds = NoOp /\ afg = NoOp

NextAct ==
    \/ \E op \in {"activate_channel", "deactivate_channel"}, c \in ChannelNumbers :
          ActCall(op, c)
    \/ \E ok \in BOOLEAN : Act_Step(ok)

SpecAct == InitAct /\ [][NextAct]_vars

\* C14: a call of activate_channel(c) / deactivate_channel(c) with a valid c
\* that has returned leaves the channel selected that was selected before the
\* call, has made channel c active (inactive), has left the active state of
\* every other channel as it was, and has sent: query of the selection,
\* selection of c, active state, selection of the previous channel.
C14_RestoresSelection ==
    (act.pc = "returned" /\ act.channel \in 1..4) =>
        /\ hmpSel = act.selBefore
        /\ hmpActive[act.channel] = (act.op = "activate_channel")
        /\ \A d \in 1..4 : d # act.channel => hmpActive[d] = act.activeBefore[d]
        /\ act.sent = <<"INST:NSEL?",
                        "INST:NSEL " \o ToString(act.channel),
                        "OUTPUT:SEL " \o (IF act.op = "activate_channel" THEN "1" ELSE "0"),
                        "INST:NSEL " \o ToString(act.selBefore)>>

C14_Witness ==
    /\ act.pc = "returned" /\ act.op = "deactivate_channel" /\ act.channel = 3
    /\ act.selBefore = 2 /\ hmpSel = 2
    /\ act.activeBefore[3] /\ ~hmpActive[3] /\ hmpActive[1]

----------------------------------------------------------------------------
(* Transport errors in CNT91.buffer_time_series, CNT91.read_buffer and     *)
(* HMP4040.activate_channel: the three operations against one counter and  *)
(* one supply, the transport failing any command.                          *)

InitErr ==
    /\ batch = [i \in CntInsts |-> NoAttr]
    /\ devSmax = [i \in CntInsts |-> MaxBatch]
    /\ devBuf = [i \in CntInsts |-> IF i \in GenInsts THEN [k \in 1..MaxBuf |-> k] ELSE <<>>]
    /\ smax = [i \in CntInsts |-> [sent |-> 0, failed |-> FALSE, first |-> 0]]
    /\ lastRead = NoRead
    /\ call = NoCall
    /\ gen = NoGen
    /\ hmpSel = 1 /\ attrOp = NoOp
    /\ objs = {} /\ subOp = NoOp
    /\ hmpActive = [c \in 1..4 |-> FALSE] /\ act = NoAct
    /\ harness = NoOp /\ t3ds = NoOp /\ afg = NoOp

NextErr ==
    \/ \E i \in GenInsts, t \in {None, "A"} : BTS_Call(i, "A", 1, 1, t)
    \/ \E ok \in BOOLEAN, reply \in {"1\n", "0\n"} : BTS_Step(ok, reply)
    \/ \E i \in GenInsts : ReadBufferCall(i)
    \/ Gen_Next
    \/ \E ok \in BOOLEAN : Gen_Fetch(ok)
    \/ \E ok \in BOOLEAN : Gen_Check(ok)
    \/ \E c \in {2, 5} : ActCall("activate_channel", c)
    \/ \E ok \in BOOLEAN : Act_Step(ok)

SpecErr == InitErr /\ [][NextErr]_vars

\* C13: when the transport raises during a command of buffer_time_series,
\* read_buffer or activate_channel, the operation ends at that step with the
\* transport's error; the failed command was sent once, and an operation that
\* has ended sends nothing more.
C13_Failed(r) == r.error = "TransportError"

\* a call record (buffer_time_series, activate_channel) before and after a step
C13_CallStep(c, d) ==
    /\ (C13_Failed(d) /\ d # c) =>
          /\ d.pc = "raised"
          /\ ~C13_Failed(c) /\ c.pc \notin {"none", "returned", "raised"}
          /\ Len(d.sent) = Len(c.sent) + 1
          /\ SubSeq(d.sent, 1, Len(c.sent)) = c.sent
    /\ (c.pc = "raised" /\ d # c) => (d.sent = <<>> /\ d.error = "")

\* the generator of read_buffer before and after a step
C13_GenStep ==
    /\ (C13_Failed(gen') /\ gen' # gen) =>
          /\ gen'.pc = "raised" /\ GenRunning
          /\ gen'.yielded = gen.yielded
          /\ \/ gen.pc = "fetch" /\ gen'.fetches = gen.fetches + 1
             \/ /\ gen.pc = "check" /\ gen'.fetches = gen.fetches
                /\ smax'[gen.inst].sent = Min(smax[gen.inst].sent + 1, MaxQueries)
    /\ (gen.pc = "raised" /\ gen' # gen) => (gen'.fetches = 0 /\ gen'.error = "")
    /\ (gen.pc = "raised" /\ gen' = gen) => (devBuf' = devBuf /\ smax' = smax)

C13_Step == C13_CallStep(call, call') /\ C13_CallStep(act, act') /\ C13_GenStep

C13_TransportErrorsPropagate == [][C13_Step]_vars

C13_Witness ==
    /\ act.pc = "raised" /\ C13_Failed(act) /\ act.sent = <<"INST:NSEL?", "INST:NSEL 2">>
    /\ gen.pc = "raised" /\ C13_Failed(gen) /\ gen.fetches = 2

----------------------------------------------------------------------------
(* The generators of the AFG3100 series: afg3100.py.                       *)
(*                                                                         *)
(* Amplitudes are counted in units of 0.00001 (V or dBm), so that 2000     *)
(* stands for 20 mV and 1000000 for 10 V.  An amplitude is a number        *)
(* [num |-> v] or a pair [value |-> v, unit |-> u].                        *)

Num(v) == [num |-> v]
Pair(v, u) == [value |-> v, unit |-> u]
IsPair(x) == "unit" \in DOMAIN x

\* str() of a Python float given in units of 0.00001
RECURSIVE AllDigits(_, _)
AllDigits(f, k) ==
    IF k = 1 THEN ToString(f) ELSE AllDigits(f \div 10, k - 1) \o ToString(f % 10)
RECURSIVE FracDigits(_, _)
FracDigits(f, k) ==
    IF k = 1 THEN ToString(f)
    ELSE IF f % 10 = 0 THEN FracDigits(f \div 10, k - 1)
    ELSE AllDigits(f, k)
FloatStr(x) ==
    LET a == IF x < 0 THEN 0 - x ELSE x
    IN  (IF x < 0 THEN "-" ELSE "") \o ToString(a \div 100000) \o "."
        \o FracDigits(a % 100000, 5)

\* validators.truncated_discrete_set on the values first, first + step, ..,
\* last: the smallest of them that is not below the value, the last one for a
\* value above all of them
TruncatedDiscreteSet(value, first, last, step) ==
    IF value > last THEN last
    ELSE IF value <= first THEN first
    ELSE first + ((value - first + step - 1) \div step) * step

\* np.arange(20e-3, 10.0001, step=0.1e-3) and the two other ranges of
\* Channel.amplitude, as <<first, last, step>>
AmplitudeRange(unit) ==
    CASE unit = "VPP" -> <<2000, 1000000, 10>>
      [] unit = "VRMS" -> <<710, 353600, 10>>
      [] OTHER -> <<-3000000, 2398000, 10>>

\* Channel.amplitude of afg3100.py, assigned on channel n; reported is the
\* unit the generator answers to voltage:unit?
AFG3100_AmplitudeSet(n, amplitude, reported) ==
    LET unit == IF IsPair(amplitude) THEN amplitude.unit ELSE reported
        value == IF IsPair(amplitude) THEN amplitude.value ELSE amplitude.num
        asked == IF IsPair(amplitude) THEN <<>>
                 ELSE <<SubScope("afg3100.Channel", "values", n) \o "voltage:unit?">>
        v == StrictDiscreteSet(unit, {"VPP", "VRMS", "DBM"})
        range == AmplitudeRange(unit)
    IN  IF v.error # "" THEN [cmds |-> asked, error |-> v.error]
        ELSE [cmds |-> asked \o <<SubScope("afg3100.Channel", "write", n) \o "VOLT:AMPL "
                                  \o FloatStr(TruncatedDiscreteSet(value, range[1], range[2],
                                                                   range[3]))
                                  \o unit>>,
              error |-> ""]

\* Python's format '%e' of a natural number below ten million
Format6e(x) ==
    LET e == Exponent(x)
        scaled == x * Pow10(6 - e)
        digit(k) == ToString((scaled \div Pow10(k)) % 10)
    IN  digit(6) \o "." \o digit(5) \o digit(4) \o digit(3) \o digit(2) \o digit(1)
        \o digit(0) \o "e+" \o (IF e < 10 THEN "0" ELSE "") \o ToString(e)

\* the texts among the values of Channel.shape (1, 2, 3, 4 are values too)
AFG3100_Shapes == {"SIN", "SQU", "PULS", "RAMP", "PRN", "DC", "SINC", "GAUS", "LOR", "ERIS",
                   "EDEC", "HAV", "USER1", "USER2", "USER3", "USER4", "EMEM"}

\* Channel.shape of afg3100.py, assigned a text on channel n
AFG3100_ShapeSet(n, shape) ==
    ControlSet(SubScope("afg3100.Channel", "write", n) \o "function:shape ",
               StrictDiscreteSet(shape, AFG3100_Shapes), shape)

\* _validator_values["frequency"] of AFG3102 and AFG3152C, in Hz; the lower
\* bound 1e-6 lies below every frequency above 0
FrequencyLimit(model) == IF model = "AFG3102" THEN 100000000 ELSE 150000000

\* Channel.frequency of afg3100.py, assigned a whole number of Hz on channel n
AFG3100_FrequencySet(model, n, value) ==
    IF value < 1 \/ value > FrequencyLimit(model) THEN Raise("ValueError")
    ELSE Done(<<SubScope("afg3100.Channel", "write", n) \o "FREQ:FIX " \o Format6E(value)>>)

\* Channel.offset of afg3100.py, assigned a whole number of volts on channel n
AFG3100_OffsetSet(n, offset) ==
    Done(<<SubScope("afg3100.Channel", "write", n) \o "voltage:offset " \o Format6e(offset)>>)

\* one statement after the statements that wrote cmds: an error ends the
\* method with what has been written
Then(r, next) ==
    IF r.error # "" THEN r ELSE [cmds |-> r.cmds \o next.cmds, error |-> next.error]

\* Channel.waveform of afg3100.py on channel n: amplitude is None or a
\* number, unit None or a text.  "if unit" makes the pair (amplitude, unit),
\* "if amplitude" assigns Channel.amplitude when the amplitude is a pair or a
\* number other than 0; a pair whose value is None passes the unit check and
\* raises TypeError where truncated_discrete_set compares None with a number.
AFG3100_Waveform(model, n, shape, frequency, amplitude, unit, offset, reported) ==
    LET paired == IsTrue(unit)
        assigned == paired \/ ("num" \in DOMAIN amplitude /\ amplitude.num # 0)
        setAmplitude ==
            IF ~assigned THEN Done(<<>>)
            ELSE IF ~paired THEN AFG3100_AmplitudeSet(n, amplitude, reported)
            ELSE IF "num" \in DOMAIN amplitude
              THEN AFG3100_AmplitudeSet(n, Pair(amplitude.num, unit.str), reported)
            ELSE IF StrictDiscreteSet(unit.str, {"VPP", "VRMS", "DBM"}).error # ""
              THEN Raise("ValueError")
            ELSE Raise("TypeError")
    IN  Then(Then(Then(AFG3100_ShapeSet(n, shape), AFG3100_FrequencySet(model, n, frequency)),
                  setAmplitude),
             AFG3100_OffsetSet(n, offset))

\* EditMemory.load_shape(source)
AFG3100_LoadShape(source) ==
    LET v == StrictDiscreteSet(source, {PyStrOf("USER1"), PyStrOf("USER2"), PyStrOf("USER3"),
                                        PyStrOf("USER4"), PyInt(1), PyInt(2), PyInt(3), PyInt(4)})
    IN  IF v.error # "" THEN Raise(v.error)
        ELSE Done(<<"DATA:COPY EMEM," \o (IF IsInt(source) THEN ToString(source.int)
                                          ELSE source.str)>>)

\* EditMemory.save_shape(destination)
AFG3100_SaveShape(destination) ==
    LET v == StrictDiscreteSet(destination, {PyStrOf("USER1"), PyStrOf("USER2"), PyStrOf("USER3"),
                                             PyStrOf("USER4"), PyInt(1), PyInt(2), PyInt(3), PyInt(4)})
    IN  IF v.error # "" THEN Raise(v.error)
        ELSE Done(<<"DATA:COPY "
                    \o (IF IsInt(destination) THEN "USER" \o ToString(destination.int)
                        ELSE destination.str)
                    \o ",EMEM">>)

\* A shape of the edit memory is a list of points; the setter looks at its
\* length only, so a shape is given by its number of points.
Points(length) == [points |-> length]

\* EditMemory.shape, assigned: write_binary_values sends the command followed
\* by the block of the points, two bytes each (datatype "H"); the block's
\* header '#<digits><bytes>' stands for the block here.
AFG3100_MemoryShapeSet(shape) ==
    IF shape.points < 2 \/ shape.points > 131073 THEN Raise("ValueError")
    ELSE Done(<<"DATA:DATA EMEM,#" \o ToString(Len(ToString(2 * shape.points)))
                \o ToString(2 * shape.points)>>)

\* values of EditMemory.shape_length: [*"MIN", "MAX", *list(range(2, 131073))]
\* is 'M', 'I', 'N', 'MAX', 2, .., 131072
ShapeLengthAccepts(value) ==
    IF IsInt(value) THEN value.int \in 2..131072
    ELSE value.str \in {"M", "I", "N", "MAX"}

\* EditMemory.shape_length, assigned: the set command 'DATA:POIN EMEM, %d'
\* formats an integer; for a text the format raises TypeError.
AFG3100_ShapeLengthSet(value) ==
    IF ~ShapeLengthAccepts(value) THEN Raise("ValueError")
    ELSE IF IsStr(value) THEN Raise("TypeError")
    ELSE Done(<<"DATA:POIN EMEM, " \o ToString(value.int)>>)

\* The arguments the operations are tried with.
SeriesModels == {"AFG3102", "AFG3152C"}
MemoryArgs == {PyStrOf("USER1"), PyStrOf("USER4"), PyStrOf("USER5"), PyStrOf("EMEM"),
               PyInt(0), PyInt(1), PyInt(4), PyInt(5)}
AmplitudeValues == {-4000000, 0, 1000, 2004, 100000, 353600, 1000000, 2398000, 3000000}
AmplitudeUnits == {"VPP", "VRMS", "DBM", "V"}
ReportedUnits == {"VPP", "VRMS", "DBM"}

WaveformAmplitudes == {PyNone, Num(0), Num(100000)}
WaveformUnits == {PyNone, PyStrOf("VPP"), PyStrOf("DBM")}
MaxCommands == 5     \* the most commands Channel.waveform sends

ShapeSizes == {0, 1, 2, 3, 131072, 131073, 131074}
ShapeLengthArgs == {PyInt(n) : n \in ShapeSizes} \cup {PyStrOf("MIN"), PyStrOf("MAX"), PyStrOf("M")}

NoAfg == [op |-> "none", error |-> "", arg |-> NoOp, written |-> <<>>, reported |-> "",
          mem |-> FALSE]

\* One operation: r is what the driver does, ok whether the transport carries
\* its commands.
AfgPerform(op, arg, reported, r, ok) ==
    /\ afg' = [afg EXCEPT !.op = op, !.arg = arg, !.reported = reported,
                          !.written = r.cmds,
                          !.error = IF r.error # "" THEN r.error
                                    ELSE IF ok \/ r.cmds = <<>> THEN ""
                                    ELSE "TransportError"]
    /\ UNCHANGED <<cntVars, attrVars, subVars, actVars, harness, t3ds>>

\* AFG3102(adapter) / AFG3152C(adapter): AFG3100Series.__init__ stops in
\* Channel(self, 1)
AFG3100_Construct(model) ==
    LET r == IF AFG3100_ChannelInit(1).error # "" THEN AFG3100_ChannelInit(1)
             ELSE AFG3100_ChannelInit(2)
    IN  /\ afg' = [afg EXCEPT !.op = model, !.arg = NoOp, !.reported = "",
                              !.written = r.cmds, !.error = r.error,
                              !.mem = IF r.error = "" THEN TRUE ELSE afg.mem]
        /\ objs' = IF r.error # "" THEN objs
                   ELSE objs \cup {NewObject(k, n, 0) :
                                     k \in ModeKinds \cup {"afg3100.Channel"}, n \in 1..2}
        /\ UNCHANGED <<cntVars, attrVars, subOp, actVars, harness, t3ds>>

\* The statement  Model(adapter).ch<n>.amplitude = amplitude : the channel is
\* the one the constructor of the generator makes.
AFG3100_SetAmplitude(model, n, amplitude, reported, ok) ==
    AfgPerform("amplitude", [n |-> n, amplitude |-> amplitude, model |-> model], reported,
               IF AFG3100_ChannelInit(n).error # "" THEN AFG3100_ChannelInit(n)
               ELSE AFG3100_AmplitudeSet(n, amplitude, reported), ok)

\* The statement  Model(adapter).ch<n>.waveform(shape, frequency, amplitude,
\* unit, offset) : the transport carries every command (fail = 0) or raises
\* in the fail-th one.
AFG3100_CallWaveform(model, n, shape, frequency, amplitude, unit, offset, reported, fail) ==
    LET r == IF AFG3100_ChannelInit(n).error # "" THEN AFG3100_ChannelInit(n)
             ELSE AFG3100_Waveform(model, n, shape, frequency, amplitude, unit, offset,
                                   reported)
    IN  AfgPerform("waveform",
                   [n |-> n, shape |-> shape, frequency |-> frequency, amplitude |-> amplitude,
                    offset |-> offset, unit |-> unit, model |-> model],
                   reported,
                   IF fail \in 1..Len(r.cmds)
                     THEN [cmds |-> SubSeq(r.cmds, 1, fail), error |-> "TransportError"]
                   ELSE r,
                   TRUE)

\* EditMemory(instrument)
NewEditMemory ==
    /\ ~afg.mem
    /\ afg' = [NoAfg EXCEPT !.mem = TRUE, !.op = "EditMemory"]
    /\ UNCHANGED <<cntVars, attrVars, subVars, actVars, harness, t3ds>>

LoadShape(source, ok) ==
    /\ afg.mem
    /\ AfgPerform("load_shape", source, "", AFG3100_LoadShape(source), ok)

SaveShape(destination, ok) ==
    /\ afg.mem
    /\ AfgPerform("save_shape", destination, "", AFG3100_SaveShape(destination), ok)

\* edit_memory.shape = shape
SetShape(shape, ok) ==
    /\ afg.mem
    /\ AfgPerform("shape", shape, "", AFG3100_MemoryShapeSet(shape), ok)

\* edit_memory.shape_length = value
SetShapeLength(value, ok) ==
    /\ afg.mem
    /\ AfgPerform("shape_length", value, "", AFG3100_ShapeLengthSet(value), ok)

InitAFG ==
    /\ batch = [i \in CntInsts |-> NoAttr]
    /\ devSmax = [i \in CntInsts |-> 1]
    /\ devBuf = [i \in CntInsts |-> <<>>]
    /\ smax = [i \in CntInsts |-> [sent |-> 0, failed |-> FALSE, first |-> 0]]
    /\ lastRead = NoRead
    /\ call = NoCall
    /\ gen = NoGen
    /\ hmpSel = 1 /\ attrOp = NoOp
    /\ objs = {} /\ subOp = NoOp
    /\ hmpActive = [c \in 1..4 |-> FALSE] /\ act = NoOp
    /\ harness = NoOp /\ t3ds = NoOp /\ afg = NoAfg

NextAFG ==
    \/ \E m \in SeriesModels : AFG3100_Construct(m)
    \/ \E m \in SeriesModels, n \in 1..2, v \in AmplitudeValues, u \in ReportedUnits,
          ok \in BOOLEAN : AFG3100_SetAmplitude(m, n, Num(v), u, ok)
    \/ \E m \in SeriesModels, n \in 1..2, v \in AmplitudeValues, u \in AmplitudeUnits,
          ok \in BOOLEAN : AFG3100_SetAmplitude(m, n, Pair(v, u), "VPP", ok)
    \/ \E m \in SeriesModels, n \in 1..2, s \in ShapeArgs, a \in WaveformAmplitudes,
          u \in WaveformUnits, o \in OffsetArgs, fail \in 0..MaxCommands :
          AFG3100_CallWaveform(m, n, s, 1000000, a, u, o, "VRMS", fail)
    \/ NewEditMemory
    \/ \E x \in MemoryArgs, ok \in BOOLEAN : LoadShape(x, ok)
    \/ \E x \in MemoryArgs, ok \in BOOLEAN : SaveShape(x, ok)
    \/ \E n \in ShapeSizes, ok \in BOOLEAN : SetShape(Points(n), ok)
    \/ \E x \in ShapeLengthArgs, ok \in BOOLEAN : SetShapeLength(x, ok)

SpecAFG == InitAFG /\ [][NextAFG]_vars

\* C15: assigning the amplitude of a channel of a generator of the AFG3100
\* series a number sends one VOLT:AMPL command with the unit the channel
\* reports, assigning a pair one with the unit of the pair; a unit outside
\* VPP, VRMS, DBM raises before a VOLT:AMPL command is sent; the number sent
\* lies in the range of the unit.
C15_Unit == IF IsPair(afg.arg.amplitude) THEN afg.arg.amplitude.unit ELSE afg.reported

C15_Sendable(unit) ==
    LET lo == CASE unit = "VPP" -> 2000 [] unit = "VRMS" -> 710 [] OTHER -> -3000000
        hi == CASE unit = "VPP" -> 1000000 [] unit = "VRMS" -> 353600 [] OTHER -> 2398000
    IN  {"source" \o ToString(afg.arg.n) \o ":VOLT:AMPL " \o FloatStr(v) \o unit :
            v \in {w \in AmplitudeValues : lo <= w /\ w <= hi} \cup {lo, hi, 2010}}

C15_AmplitudeSet ==
    afg.op = "amplitude" =>
        IF C15_Unit \in {"VPP", "VRMS", "DBM"}
          THEN /\ afg.error \in {"", "TransportError"}
               /\ Len(afg.written) >= 1
               /\ afg.written[Len(afg.written)] \in C15_Sendable(C15_Unit)
               /\ \A k \in 1..(Len(afg.written) - 1) :
                     afg.written[k] = "source" \o ToString(afg.arg.n) \o ":voltage:unit?"
        ELSE /\ afg.error = "ValueError"
             /\ \A k \in 1..Len(afg.written) :
                   afg.written[k] = "source" \o ToString(afg.arg.n) \o ":voltage:unit?"

\* C16: load_shape and save_shape of the edit memory take a user memory as
\* 'USER1'..'USER4' or as 1..4; the integer n sends the command the string
\* 'USER<n>' sends; every other argument raises and sends nothing.
C16_Name(x) == IF IsInt(x) THEN "USER" \o ToString(x.int) ELSE x.str

C16_Valid(x) == IF IsInt(x) THEN x.int \in 1..4
                ELSE x.str \in {"USER1", "USER2", "USER3", "USER4"}

C16_IntegerAsString ==
    afg.op \in {"load_shape", "save_shape"} =>
        IF C16_Valid(afg.arg)
          THEN afg.written = <<IF afg.op = "load_shape"
                               THEN "DATA:COPY EMEM," \o C16_Name(afg.arg)
                               ELSE "DATA:COPY " \o C16_Name(afg.arg) \o ",EMEM">>
        ELSE afg.error = "ValueError" /\ afg.written = <<>>

\* C21: constructing an AFG3102 or an AFG3152C of the AFG3100 series ends
\* without error and leaves the channels 1 and 2, each with a burst, a pulse
\* and a sweep mode of its own number, and an edit memory.
C21_ConstructionCompletes ==
    afg.op \in SeriesModels =>
        /\ afg.error = ""
        /\ afg.mem
        /\ \A n \in 1..2 :
              /\ NewObject("afg3100.Channel", n, 0) \in objs
              /\ \A k \in ModeKinds : NewObject(k, n, 0) \in objs

\* C22: Channel.waveform of a generator of the AFG3100 series completes and
\* writes the shape, the frequency, the amplitude and the offset in this
\* order; a VOLT:AMPL command is among them exactly when an amplitude (0
\* included) is given, in the given unit or else in the unit the channel
\* reports; a call the transport fails has written a beginning of these
\* commands.
C22_Supplied == "num" \in DOMAIN afg.arg.amplitude

C22_Unit == IF IsStr(afg.arg.unit) THEN afg.arg.unit.str ELSE afg.reported

C22_Scope == "source" \o ToString(afg.arg.n) \o ":"

C22_AmplitudeCommands ==
    LET lo == CASE C22_Unit = "VPP" -> 2000 [] C22_Unit = "VRMS" -> 710 [] OTHER -> -3000000
        hi == CASE C22_Unit = "VPP" -> 1000000 [] C22_Unit = "VRMS" -> 353600
                [] OTHER -> 2398000
    IN  {C22_Scope \o "VOLT:AMPL " \o FloatStr(v) \o C22_Unit :
            v \in {lo, hi} \cup {w \in {afg.arg.amplitude.num} : lo <= w /\ w <= hi}}

C22_Commands ==
    LET head == <<C22_Scope \o "function:shape " \o afg.arg.shape,
                  C22_Scope \o "FREQ:FIX " \o Format6E(afg.arg.frequency)>>
        tail == <<C22_Scope \o "voltage:offset " \o Format6e(afg.arg.offset)>>
        asked == IF IsStr(afg.arg.unit) THEN <<>> ELSE <<C22_Scope \o "voltage:unit?">>
    IN  IF C22_Supplied
          THEN {head \o asked \o <<c>> \o tail : c \in C22_AmplitudeCommands}
        ELSE {head \o tail}

C22_WaveformInOrder ==
    afg.op = "waveform" =>
        \E full \in C22_Commands :
            \/ afg.error = "" /\ afg.written = full
            \/ /\ afg.error = "TransportError"
               /\ Len(afg.written) \in 1..Len(full)
               /\ afg.written = SubSeq(full, 1, Len(afg.written))

----------------------------------------------------------------------------
(* The T3DS01204 oscilloscope: t3ds01204.py.                               *)
(*                                                                         *)
(* t3ds.made says whether a T3DS01204 object exists, t3ds.sent holds the   *)
(* first MaxLog commands the driver has sent for it, in order.             *)

MaxLog == 4          \* commands recorded per T3DS01204 object

NoScope == [op |-> "none", error |-> "", sent |-> <<>>, arg |-> NoOp,
            written |-> <<>>, made |-> FALSE]

\* T3DS01204._comm_header, assigned
T3DS_CommHeaderSet(value) ==
    ControlSet("CHDR  ", StrictDiscreteSet(value, {"OFF", "SHORT", "LONG"}), value)

\* T3DS01204.__init__: Instrument.__init__ sends nothing; then
\* self._comm_header = "OFF"
T3DS_InitSilent == Done(<<>>)
T3DS_Init == T3DS_CommHeaderSet("OFF")

\* T3DS01204.select_trigger: its checks, in the order of the code
TriggerTypes == {"EDGE", "SLEW", "GLIT", "INTV", "RUNT", "DROP"}

TriggerSources(trigger_type) ==
    IF trigger_type = "EDGE"
      THEN {PyInt(1), PyInt(2), PyInt(3), PyInt(4), PyStrOf("LINE"), PyStrOf("EX"),
            PyStrOf("EX5")}
    ELSE {PyInt(1), PyInt(2), PyInt(3), PyInt(4)}

\* lines 165-172: the hold types the code checks hold_type against, and
\* whether it checks at all
HoldTypeChecked(trigger_type, hold_type) ==
    \/ trigger_type \in {"EDGE", "DROP", "GLIT", "RUNT"}
    \/ trigger_type = "INTV" \/ hold_type = "SLEW"

HoldTypes(trigger_type) ==
    CASE trigger_type = "EDGE" -> {"TI", "OFF"}
      [] trigger_type = "DROP" -> {"TI"}
      [] trigger_type \in {"GLIT", "RUNT"} -> {"PS", "PL", "P1", "P2"}
      [] OTHER -> {"IS", "IL", "I1", "I2"}

T3DS_SelectTrigger(source, trigger_type, hold_type, hold_value, hold_value2) ==
    IF StrictDiscreteSet(trigger_type, TriggerTypes).error # ""
      THEN Raise("ValueError")
    ELSE IF StrictDiscreteSet(source, TriggerSources(trigger_type)).error # ""
      THEN Raise("ValueError")
    ELSE IF /\ HoldTypeChecked(trigger_type, hold_type)
            /\ StrictDiscreteSet(hold_type, HoldTypes(trigger_type)).error # ""
      THEN Raise("ValueError")
    ELSE LET src == IF IsInt(source) THEN "C" \o FStr(source) ELSE FStr(source)
             cmd == "TRSE  " \o trigger_type \o ",SR," \o src \o ",HT," \o hold_type
         IN  IF hold_type = "OFF" THEN Done(<<cmd>>)
             ELSE IF ~IsTrue(hold_value) THEN Raise("ValueError")
             ELSE Done(<<cmd \o ",HV," \o FStr(hold_value)
                             \o (IF IsTrue(hold_value2)
                                 THEN ",HV2," \o FStr(hold_value2) ELSE "")>>)

\* The arguments select_trigger is tried with.
SourceArgs == {PyInt(1), PyInt(5), PyStrOf("LINE"), PyStrOf("XX")}
TriggerTypeArgs == TriggerTypes \cup {"XX"}
HoldTypeArgs == {"OFF", "TI", "PS", "IS", "SLEW", "XX"}
HoldValueArgs == {PyNone, PyInt(0), PyInt(2)}
HoldValue2Args == {PyNone, PyInt(0), PyInt(3)}

\* The call scope.select_trigger(...) on a constructed T3DS01204, about to run
PendingTrigger(source, trigger_type, hold_type, hold_value, hold_value2) ==
    [op |-> "call", error |-> "", sent |-> <<"CHDR  OFF">>,
     arg |-> [source |-> source, trigger_type |-> trigger_type, hold_type |-> hold_type,
              hold_value |-> hold_value, hold_value2 |-> hold_value2],
     written |-> <<>>, made |-> TRUE]

\* One operation of the driver: r is what it does, ok whether the transport
\* carries its command.
T3DS_Perform(op, arg, r, ok) ==
    /\ t3ds' = [t3ds EXCEPT !.op = op, !.arg = arg, !.written = r.cmds,
                            !.sent = SubSeq(t3ds.sent \o r.cmds, 1,
                                            Min(MaxLog, Len(t3ds.sent \o r.cmds))),
                            !.error = IF r.error # "" THEN r.error
                                      ELSE IF ok THEN "" ELSE "TransportError"]
    /\ UNCHANGED <<cntVars, attrVars, subVars, actVars, harness, afg>>

SelectTrigger(ok) ==
    /\ t3ds.made /\ t3ds.op = "call"
    /\ T3DS_Perform("select_trigger", t3ds.arg,
                    T3DS_SelectTrigger(t3ds.arg.source, t3ds.arg.trigger_type,
                                       t3ds.arg.hold_type, t3ds.arg.hold_value,
                                       t3ds.arg.hold_value2), ok)

InitTrig ==
    /\ batch = [i \in CntInsts |-> NoAttr]
    /\ devSmax = [i \in CntInsts |-> 1]
    /\ devBuf = [i \in CntInsts |-> <<>>]
    /\ smax = [i \in CntInsts |-> [sent |-> 0, failed |-> FALSE, first |-> 0]]
    /\ lastRead = NoRead
    /\ call = NoCall
    /\ gen = NoGen
    /\ hmpSel = 1 /\ attrOp = NoOp
    /\ objs = {} /\ subOp = NoOp
    /\ hmpActive = [c \in 1..4 |-> FALSE] /\ act = NoOp
    /\ harness = NoOp /\ afg = NoOp
    /\ t3ds \in {PendingTrigger(s, t, h, v, w) :
                    s \in SourceArgs, t \in TriggerTypeArgs, h \in HoldTypeArgs,
                    v \in HoldValueArgs, w \in HoldValue2Args}

NextTrig == \E ok \in BOOLEAN : SelectTrigger(ok)

SpecTrig == InitTrig /\ [][NextTrig]_vars

\* T3DS01204(resourceName): a new object; a constructor the transport fails
\* leaves no object behind.
T3DS_Construct(ok) ==
    /\ ~t3ds.made
    /\ t3ds' = [NoScope EXCEPT !.made = ok /\ T3DS_Init.error = "",
                               !.op = "T3DS01204", !.written = T3DS_Init.cmds,
                               !.sent = T3DS_Init.cmds,
                               !.error = IF T3DS_Init.error # "" THEN T3DS_Init.error
                                         ELSE IF ok THEN "" ELSE "TransportError"]
    /\ UNCHANGED <<cntVars, attrVars, subVars, actVars, harness, afg>>

\* a query of the driver: an attribute of the oscilloscope or of a channel is
\* read
T3DS_Query(q, ok) ==
    /\ t3ds.made /\ Len(t3ds.sent) < MaxLog
    /\ T3DS_Perform("query", NoOp, Done(<<q>>), ok)

\* T3DS01204.arm_acquisition()
T3DS_Arm(ok) ==
    /\ t3ds.made /\ Len(t3ds.sent) < MaxLog
    /\ T3DS_Perform("arm_acquisition", NoOp, Done(<<"ARM">>), ok)

\* the object is given up (the program ends or drops it)
T3DS_Discard ==
    /\ t3ds.made
    /\ t3ds' = NoScope
    /\ UNCHANGED <<cntVars, attrVars, subVars, actVars, harness, afg>>

QueryCommands == {"CHDR?", "TRDL?", "C1:OFST?", "C2:CPL?"}

InitScope ==
    /\ batch = [i \in CntInsts |-> NoAttr]
    /\ devSmax = [i \in CntInsts |-> 1]
    /\ devBuf = [i \in CntInsts |-> <<>>]
    /\ smax = [i \in CntInsts |-> [sent |-> 0, failed |-> FALSE, first |-> 0]]
    /\ lastRead = NoRead
    /\ call = NoCall
    /\ gen = NoGen
    /\ hmpSel = 1 /\ attrOp = NoOp
    /\ objs = {} /\ subOp = NoOp
    /\ hmpActive = [c \in 1..4 |-> FALSE] /\ act = NoOp
    /\ harness = NoOp /\ afg = NoOp
    /\ t3ds = NoScope

NextScope ==
    \/ \E ok \in BOOLEAN : T3DS_Construct(ok)
    \/ \E q \in QueryCommands, ok \in BOOLEAN : T3DS_Query(q, ok)
    \/ \E ok \in BOOLEAN : T3DS_Arm(ok)
    \/ T3DS_Discard

SpecScope == InitScope /\ [][NextScope]_vars

\* C19: select_trigger writes a TRSE command only when the trigger type is
\* one of EDGE, SLEW, GLIT, INTV, RUNT, DROP, the source is valid for the type
\* (1..4, and LINE, EX, EX5 for EDGE) and the hold type is valid for the type
\* (TI, OFF for EDGE; TI for DROP; PS, PL, P1, P2 for GLIT and RUNT; IS, IL,
\* I1, I2 for INTV and SLEW); every other combination raises and writes
\* nothing.
C19_Sources(trigger_type) ==
    {PyInt(1), PyInt(2), PyInt(3), PyInt(4)}
    \cup (IF trigger_type = "EDGE" THEN {PyStrOf("LINE"), PyStrOf("EX"), PyStrOf("EX5")}
          ELSE {})

C19_HoldTypes(trigger_type) ==
    CASE trigger_type = "EDGE" -> {"TI", "OFF"}
      [] trigger_type = "DROP" -> {"TI"}
      [] trigger_type \in {"GLIT", "RUNT"} -> {"PS", "PL", "P1", "P2"}
      [] trigger_type \in {"INTV", "SLEW"} -> {"IS", "IL", "I1", "I2"}
      [] OTHER -> {}

C19_ValidCombination(a) ==
    /\ a.trigger_type \in {"EDGE", "SLEW", "GLIT", "INTV", "RUNT", "DROP"}
    /\ a.source \in C19_Sources(a.trigger_type)
    /\ a.hold_type \in C19_HoldTypes(a.trigger_type)

C19_WritesOnlyValid ==
    t3ds.op = "select_trigger" =>
        IF C19_ValidCombination(t3ds.arg)
          THEN \A k \in 1..Len(t3ds.written) :
                  t3ds.written[k] \in
                     {"TRSE  " \o t3ds.arg.trigger_type \o ",SR,"
                         \o (IF IsInt(t3ds.arg.source) THEN "C" ELSE "")
                         \o FStr(t3ds.arg.source) \o ",HT," \o t3ds.arg.hold_type \o tail :
                      tail \in {"", ",HV,2", ",HV,2,HV2,3"}}
        ELSE t3ds.written = <<>> /\ t3ds.error # ""

\* C20: the first command a T3DS01204 object sends is CHDR  OFF, sent by its
\* constructor; every query of the driver comes after it.
C20_IsQuery(command) == command \in QueryCommands

C20_HeaderOffFirst ==
    /\ t3ds.sent # <<>> => t3ds.sent[1] = "CHDR  OFF"
    /\ t3ds.made => t3ds.sent # <<>>
    /\ \A k \in 1..Len(t3ds.sent) : C20_IsQuery(t3ds.sent[k]) => k > 1

C20_Witness ==
    /\ t3ds.made /\ t3ds.sent = <<"CHDR  OFF", "ARM", "C1:OFST?">>
    /\ t3ds.op = "query" /\ t3ds.written = <<"C1:OFST?">>

\* C23: for a valid combination of trigger type, source and hold type,
\* select_trigger writes 'TRSE  <type>,SR,<source>,HT,OFF' when the hold type
\* is OFF; for another hold type it raises ValueError and writes nothing when
\* hold_value is None, and otherwise writes the command with ',HV,<hold_value>'
\* (0 included), followed by ',HV2,<hold_value2>' exactly when hold_value2 is
\* not None; an integer source n is written as C<n>.
C23_Specified(x) == "none" \notin DOMAIN x

C23_Command(a) ==
    "TRSE  " \o a.trigger_type \o ",SR,"
    \o (IF IsInt(a.source) THEN "C" \o ToString(a.source.int) ELSE a.source.str)
    \o ",HT," \o a.hold_type

C23_HoldValueFields ==
    (t3ds.op = "select_trigger" /\ C19_ValidCombination(t3ds.arg)) =>
        IF t3ds.arg.hold_type = "OFF"
          THEN t3ds.written = <<C23_Command(t3ds.arg)>>
        ELSE IF ~C23_Specified(t3ds.arg.hold_value)
          THEN t3ds.error = "ValueError" /\ t3ds.written = <<>>
        ELSE t3ds.written =
                <<C23_Command(t3ds.arg) \o ",HV," \o FStr(t3ds.arg.hold_value)
                  \o (IF C23_Specified(t3ds.arg.hold_value2)
                      THEN ",HV2," \o FStr(t3ds.arg.hold_value2) ELSE "")>>

\* C24: a generator of read_buffer on a counter that holds N >= 1 values and
\* keeps its batch size B ends (the transport not failing) without raising,
\* after it has yielded the N values once each in their order and left the
\* buffer empty, also when N is a multiple of B.
C24_N == Len(gen.yielded) + Len(devBuf[gen.inst])

C24_ReadBufferTerminates ==
    (gen.pc \in {"done", "raised"} /\ gen.error # "TransportError" /\ C24_N >= 1) =>
        /\ gen.pc = "done" /\ gen.error = ""
        /\ devBuf[gen.inst] = <<>>
        /\ \A k \in 1..(Len(gen.yielded) - 1) : gen.yielded[k + 1] = gen.yielded[k] + 1

\* C25: the shape setter of the edit memory uploads a list of points exactly
\* when shape_length takes the length of the list as a number of points, and
\* raises ValueError before anything is written otherwise; shape_length also
\* takes 'MIN' and 'MAX'.
C25_LengthTaken(value) == AFG3100_ShapeLengthSet(value).error = ""

C25_LimitsAgree ==
    /\ afg.op = "shape" =>
          IF C25_LengthTaken(PyInt(afg.arg.points))
            THEN afg.written # <<>> /\ afg.error \in {"", "TransportError"}
          ELSE afg.written = <<>> /\ afg.error = "ValueError"
    /\ (afg.op = "shape_length" /\ afg.arg \in {PyStrOf("MIN"), PyStrOf("MAX")}) =>
          afg.written # <<>> /\ afg.error \in {"", "TransportError"}

====
